---------------------------- MODULE Spec2Model ----------------------------
(***************************************************************************)
(* Model of the pc28-bot ingestion orchestrator (App in main.go), the     *)
(* MySQL-backed store (MySQLDB), the API client, the predictor and the     *)
(* validator, and of the CacheManager views the orchestrator reads.        *)
(*                                                                         *)
(* Representation.                                                         *)
(*  - A qihao (round identifier) is the integer its decimal string denotes *)
(*    (the source publishes 7-digit identifiers without leading zeros).    *)
(*  - An opennum string "a+b+c" is the sequence of its "+"-separated       *)
(*    parts, each part the integer strconv.Atoi reads from it.             *)
(*  - The API's opentime string "MM-DD hh:mm:ss" is a calendar position    *)
(*    0..YearLen-1; it carries no year.                                     *)
(*  - SQL NULL is Null for integer columns, NullNum for actual_num and     *)
(*    NullStr for actual_odd_even.                                         *)
(*  - created_at / predicted_at / verified_at are stamps of a logical      *)
(*    clock that advances with every stamping write.                       *)
(*  - Columns nothing reads (id of lottery_results, updated_at,            *)
(*    confidence_score, algorithm_version) and the log-deduplication       *)
(*    fields of App (lastAPIError, lastDBError) are left out.              *)
(*  - The predictions table has every column the queries of MySQLDB name   *)
(*    (predicted_sum, predicted_odd_even, actual_sum, actual_odd_even      *)
(*    included), as a deployed database has; the CREATE TABLE statement    *)
(*    of createTablesIfNotExists, which omits them, is not what is         *)
(*    modelled.                                                            *)
(***************************************************************************)
EXTENDS Integers, Sequences, FiniteSets, TLC

\* ------------------------------------------------------------- bounds
\* Rounds the source publishes in one behaviour.
MaxRounds == 4
\* Year ends the behaviour may cross.
MaxYear == 1
\* Retention sweeps in one behaviour.
MaxSweeps == 1
\* Process restarts (Stop followed by a new Start) in one behaviour.
MaxRestarts == 1
\* Cache entries that expire in one behaviour.
MaxExpiries == 1
\* Calls to the source or the store that fail in one behaviour.
MaxFaults == 1
\* Client.retryCount (api.retry_count of the configuration)
RetryCount == 2
\* Cycles that persist a new round while the readers read.
MaxReadCycles == 1
\* Verified forecasts in the table of the statistics check, and pending ones
\* it may hold at once.
MaxVerified == 4
MaxPending == 2
\* Verified forecasts in the table of the trend analysis.
MaxTrendRows == 12
\* Forecasts in the store when the process is started after a downtime.
MaxStartupPreds == 2
\* Rounds the source holds when the process is first started.
InitialRounds == 3

\* ------------------------------------------------------------- constants
\* A 7-digit identifier as in the comment of generateNextQihao.
FirstQihao == 3326106
\* generateNextQihao's fallback when the identifier cannot be parsed.
DefaultQihao == 3326999
\* The smallest integer whose decimal string has 7 characters (len >= 7).
SevenDigits == 1000000
\* GetTrendAnalysis reads 50 forecasts and averages over windows of 10.
TrendLimit == 50
TrendWindow == 10
\* initializeHistoricalData asks for 50 rounds, FetchAndValidateLatestData for 10.
HistoryLimit == 50
LatestLimit == 10
\* Validator.ValidatePrediction looks at the 20 most recent predictions.
ValidatorWindow == 20
\* DefaultPredictor.GetRequiredHistorySize.
RequiredHistorySize == 3
\* SQL NULL of an integer column.
Null == -1

NullNum == <<>>
NullStr == "NULL"

\* Draws the source may publish, and the errors of its reported sum.
Draws == {<<2, 4, 0>>, <<2, 4, 3>>}
SumErrs(d) == IF d = <<2, 4, 0>> THEN {0, 1} ELSE {0}

\* Calendar positions: a round published in a later model year lies earlier in
\* the calendar than every round of the year before (the behaviour straddles
\* year ends), and no two rounds share a position.
YearLen == (MaxYear + 1) * MaxRounds + 1
CalendarPos(n, y) == n + (MaxYear - y) * MaxRounds

Min(a, b) == IF a < b THEN a ELSE b

\* ------------------------------------------------------------- database helpers
\* database.CalculateSum
CalculateSum(nums) ==
    LET S[i \in 0..Len(nums)] == IF i = 0 THEN 0 ELSE S[i - 1] + nums[i]
    IN S[Len(nums)]

\* database.CalculateOddEven: "even" is "双", "odd" is "单".
CalculateOddEven(sum) == IF sum % 2 = 0 THEN "even" ELSE "odd"

\* database.ParseOpenNum: [ok, nums]; fails unless there are exactly 3 parts.
ParseOpenNum(openNum) ==
    IF Len(openNum) # 3 THEN [ok |-> FALSE, nums |-> <<>>]
    ELSE [ok |-> TRUE, nums |-> openNum]

\* database.FormatOpenNum: "" (no parts) unless there are exactly 3 numbers.
FormatOpenNum(nums) == IF Len(nums) # 3 THEN <<>> ELSE nums

\* ------------------------------------------------------------- API client
\* Client.FetchLotteryData on success: the newest `limit` entries, newest first.
FetchLotteryData(src, limit) == SubSeq(src, 1, Min(limit, Len(src)))

\* Client.parseOpenTime: the year is the one the clock shows when parsing.
parseOpenTime(timeStr, yr) == yr * YearLen + timeStr

\* Client.validateOpenNum: 3 parts, each a number in 0..9.
validateOpenNum(openNum) ==
    /\ Len(openNum) = 3
    /\ \A i \in 1..3 : openNum[i] >= 0 /\ openNum[i] <= 9

\* Client.ConvertAPIDataToLotteryResult: [ok, r]; the sum is the source's.
ConvertAPIDataToLotteryResult(apiData, yr) ==
    IF ~validateOpenNum(apiData.opennum)
    THEN [ok |-> FALSE, r |-> <<>>]
    ELSE [ok |-> TRUE,
          r  |-> << [qihao           |-> apiData.qihao,
                     opentime        |-> parseOpenTime(apiData.opentime, yr),
                     opentime_string |-> apiData.opentime,
                     opennum         |-> apiData.opennum,
                     sum_value       |-> apiData.sum,
                     created_at      |-> Null] >>]

\* Client.FetchAndValidateLatestData after a successful fetch: [ok, r]; the
\* sum is recomputed from the draw when the source's disagrees.
FetchAndValidateLatestData(src, yr) ==
    LET data == FetchLotteryData(src, LatestLimit) IN
    IF Len(data) = 0 THEN [ok |-> FALSE, r |-> <<>>]
    ELSE LET conv == ConvertAPIDataToLotteryResult(data[1], yr) IN
         IF ~conv.ok THEN conv
         ELSE LET lotteryResult == conv.r[1]
                  parsed == ParseOpenNum(lotteryResult.opennum)
                  calculatedSum == CalculateSum(parsed.nums)
              IN IF ~parsed.ok THEN [ok |-> FALSE, r |-> <<>>]
                 ELSE IF calculatedSum # lotteryResult.sum_value
                      THEN [ok |-> TRUE,
                            r  |-> << [lotteryResult EXCEPT !.sum_value = calculatedSum] >>]
                      ELSE conv

\* Client.GetHistoricalData after a successful fetch: [ok, results]; entries
\* that do not convert are skipped, the converted ones keep the source's sum.
GetHistoricalData(src, yr, limit) ==
    LET data == FetchLotteryData(src, limit)
        R[i \in 0..Len(data)] ==
            IF i = 0 THEN <<>>
            ELSE LET conv == ConvertAPIDataToLotteryResult(data[i], yr)
                 IN IF conv.ok THEN R[i - 1] \o conv.r ELSE R[i - 1]
        results == R[Len(data)]
    IN [ok |-> Len(results) > 0, results |-> results]

\* ------------------------------------------------------------- MySQLDB
\* The rows of lottery_results are a set of records, one per qihao; the rows
\* of predictions are a sequence in insertion (id) order.

\* MySQLDB.SaveLotteryResult: INSERT ... ON DUPLICATE KEY UPDATE.
SaveLotteryResult(rs, result, now) ==
    IF \E x \in rs : x.qihao = result.qihao
    THEN { IF x.qihao = result.qihao
           THEN [x EXCEPT !.opentime = result.opentime,
                          !.opentime_string = result.opentime_string,
                          !.opennum = result.opennum,
                          !.sum_value = result.sum_value]
           ELSE x : x \in rs }
    ELSE rs \cup { [result EXCEPT !.created_at = now] }

\* MySQLDB.GetLatestLotteryResults: ORDER BY opentime DESC LIMIT ?.
RECURSIVE GetLatestLotteryResults(_, _)
GetLatestLotteryResults(rs, limit) ==
    IF limit = 0 \/ rs = {} THEN <<>>
    ELSE LET m == CHOOSE x \in rs : \A y \in rs : y.opentime <= x.opentime
         IN <<m>> \o GetLatestLotteryResults(rs \ {m}, limit - 1)

\* MySQLDB.GetLotteryResultByQihao: the rows with that qihao (none or one).
GetLotteryResultByQihao(rs, qihao) == { x \in rs : x.qihao = qihao }

\* MySQLDB.CheckNewQihao: COUNT(*) = 0.
CheckNewQihao(rs, qihao) == Cardinality({ x \in rs : x.qihao = qihao }) = 0

\* MySQLDB.SavePrediction: INSERT; predicted_sum and predicted_odd_even are
\* computed when the caller left them empty.
SavePrediction(ps, prediction, id) ==
    LET parsed == ParseOpenNum(prediction.predicted_num)
        predictedSum ==
            IF prediction.predicted_sum = 0 /\ parsed.ok
            THEN CalculateSum(parsed.nums) ELSE prediction.predicted_sum
        predictedOddEven ==
            IF prediction.predicted_odd_even = ""
            THEN CalculateOddEven(predictedSum) ELSE prediction.predicted_odd_even
    IN Append(ps, [prediction EXCEPT !.id = id,
                                     !.predicted_sum = predictedSum,
                                     !.predicted_odd_even = predictedOddEven])

\* The set of rows of a predictions table.
PredRows(ps) == { ps[i] : i \in DOMAIN ps }

\* MySQLDB.GetLatestPredictions: ORDER BY CAST(target_qihao AS UNSIGNED) DESC
\* LIMIT ?. MySQL leaves the order of rows with equal targets open; the model
\* lists the later-inserted row first.
RECURSIVE TopPredictions(_, _)
TopPredictions(rows, limit) ==
    IF limit = 0 \/ rows = {} THEN <<>>
    ELSE LET m == CHOOSE x \in rows : \A y \in rows :
                     \/ y.target_qihao < x.target_qihao
                     \/ (y.target_qihao = x.target_qihao /\ y.id <= x.id)
         IN <<m>> \o TopPredictions(rows \ {m}, limit - 1)

GetLatestPredictions(ps, limit) == TopPredictions(PredRows(ps), limit)

\* A row is verified once is_correct is set.
IsVerified(p) == p.is_correct # Null

\* An UPDATE that writes the row read only, not every row with the target.
DbValidatePredictionOnlyRowRead(ps, qihao, actualResult, now) ==
    LET rows == { p \in PredRows(ps) : p.target_qihao = qihao } IN
    IF rows = {} THEN [found |-> FALSE, isCorrect |-> FALSE, ps |-> ps]
    ELSE LET row == CHOOSE x \in rows : \A y \in rows :
                       \/ y.predicted_at < x.predicted_at
                       \/ (y.predicted_at = x.predicted_at /\ y.id <= x.id)
             actualOddEven == CalculateOddEven(actualResult.sum_value)
             isCorrect == row.predicted_odd_even = actualOddEven
         IN [found |-> TRUE, isCorrect |-> isCorrect,
             ps |-> [i \in DOMAIN ps |->
                       IF ps[i].id = row.id
                       THEN [ps[i] EXCEPT !.actual_num = actualResult.opennum,
                                          !.actual_sum = actualResult.sum_value,
                                          !.actual_odd_even = actualOddEven,
                                          !.is_correct = IF isCorrect THEN 1 ELSE 0,
                                          !.verified_at = now]
                       ELSE ps[i]]]

\* MySQLDB.ValidatePrediction: [found, isCorrect, ps]. The row read is the
\* most recently predicted one for the target; the UPDATE writes every row
\* with that target, verified or not.
DbValidatePrediction(ps, qihao, actualResult, now) ==
    LET rows == { p \in PredRows(ps) : p.target_qihao = qihao } IN
    IF rows = {} THEN [found |-> FALSE, isCorrect |-> FALSE, ps |-> ps]
    ELSE LET row == CHOOSE x \in rows : \A y \in rows :
                       \/ y.predicted_at < x.predicted_at
                       \/ (y.predicted_at = x.predicted_at /\ y.id <= x.id)
             actualOddEven == CalculateOddEven(actualResult.sum_value)
             isCorrect == row.predicted_odd_even = actualOddEven
         IN [found |-> TRUE, isCorrect |-> isCorrect,
             ps |-> [i \in DOMAIN ps |->
                       IF ps[i].target_qihao = qihao
                       THEN [ps[i] EXCEPT !.actual_num = actualResult.opennum,
                                          !.actual_sum = actualResult.sum_value,
                                          !.actual_odd_even = actualOddEven,
                                          !.is_correct = IF isCorrect THEN 1 ELSE 0,
                                          !.verified_at = now]
                       ELSE ps[i]]]

\* MySQLDB.GetUnverifiedPredictions: is_correct IS NULL AND actual_num IS NULL.
\* ORDER BY predicted_at DESC: the reverse of the insertion order.
GetUnverifiedPredictions(ps) ==
    LET sel == SelectSeq(ps, LAMBDA p : p.is_correct = Null /\ p.actual_num = NullNum)
    IN [i \in 1..Len(sel) |-> sel[Len(sel) + 1 - i]]

\* The decimal string of an identifier, as its digits.
RECURSIVE DecimalString(_)
DecimalString(n) == IF n < 10 THEN <<n>> ELSE Append(DecimalString(n \div 10), n % 10)

\* MySQL's `<` on the VARCHAR target_qihao and the string parameter: the
\* order of the decimal strings, character by character, which is the
\* numeric order on identifiers of equal length only.
StringLess(a, b) ==
    LET x == DecimalString(a)
        y == DecimalString(b)
    IN \E k \in 1..(Len(y)) :
          /\ \A j \in 1..(k - 1) : j <= Len(x) /\ x[j] = y[j]
          /\ (k > Len(x) \/ x[k] < y[k])

\* A DELETE whose nullness condition is inverted: it removes verified rows.
CleanupExpiredPredictionsVerifiedRows(ps, latestQihao) ==
    SelectSeq(ps, LAMBDA p : ~(/\ StringLess(p.target_qihao, latestQihao)
                               /\ p.is_correct # Null))

\* MySQLDB.CleanupExpiredPredictions: DELETE the unverified rows whose target
\* is below latestQihao as a string.
CleanupExpiredPredictions(ps, latestQihao) ==
    SelectSeq(ps, LAMBDA p : ~(/\ StringLess(p.target_qihao, latestQihao)
                               /\ p.is_correct = Null
                               /\ p.actual_num = NullNum))

\* MySQLDB.CleanOldData's two DELETEs: rows stamped before NOW() - 24 h.
CleanOldLotteryResults(rs, horizon) == { x \in rs : ~(x.created_at < horizon) }
CleanOldPredictions(ps, horizon) ==
    SelectSeq(ps, LAMBDA p : ~(p.predicted_at < horizon))

\* ------------------------------------------------------------- predictor
\* DefaultPredictor.generateNextQihao: the identifier plus one when its
\* string has at least 7 characters, else the fallback.
PredictorGenerateNextQihao(latestQihao) ==
    IF latestQihao >= SevenDigits THEN latestQihao + 1 ELSE DefaultQihao

\* App.generateNextQihao: the identifier plus one (every identifier of the
\* model parses as a number).
AppGenerateNextQihao(latestQihao) == latestQihao + 1

\* DefaultPredictor.ValidateInput: enough rounds, each with a 3-part draw.
ValidateInput(history) ==
    /\ Len(history) >= RequiredHistorySize
    /\ \A i \in DOMAIN history : ParseOpenNum(history[i].opennum).ok

\* A predictor that decides by the average of the first position alone.
fixedOddEvenPredictionFirstPosition(allNums) ==
    IF Len(allNums) < 3 THEN <<1, 2, 3>>
    ELSE LET positionSums == [pos \in 1..3 |->
                                allNums[1][pos] + allNums[2][pos] + allNums[3][pos]]
             average == positionSums[1] \div 3
         IN IF average % 2 = 0 THEN <<2, 4, 0>> ELSE <<1, 3, 1>>

\* DefaultPredictor.fixedOddEvenPrediction: the parity of the integer average
\* of the three position sums decides between 2+4+0 and 1+3+1.
fixedOddEvenPrediction(allNums) ==
    IF Len(allNums) < 3 THEN <<1, 2, 3>>
    ELSE LET positionSums == [pos \in 1..3 |->
                                allNums[1][pos] + allNums[2][pos] + allNums[3][pos]]
             totalSum == positionSums[1] + positionSums[2] + positionSums[3]
             average == totalSum \div 3
         IN IF average % 2 = 0 THEN <<2, 4, 0>> ELSE <<1, 3, 1>>

\* DefaultPredictor.analyzeAndPredict
analyzeAndPredict(history) ==
    fixedOddEvenPrediction([i \in DOMAIN history |-> ParseOpenNum(history[i].opennum).nums])

\* DefaultPredictor.Predict (through PredictorManager.Predict): [ok, result].
\* The target is the identifier after that of the first round of the history.
Predict(history, now) ==
    IF ~ValidateInput(history) THEN [ok |-> FALSE, result |-> <<>>]
    ELSE LET recent3 == SubSeq(history, 1, 3)
         IN [ok |-> TRUE,
             result |-> << [target_qihao  |-> PredictorGenerateNextQihao(recent3[1].qihao),
                            predicted_num |-> FormatOpenNum(analyzeAndPredict(recent3)),
                            timestamp     |-> now] >>]

\* ------------------------------------------------------------- validator
\* Validator.isExactMatch
isExactMatch(predicted, actual) ==
    /\ Len(predicted) = Len(actual)
    /\ \A i \in DOMAIN predicted : predicted[i] = actual[i]

\* Validator.getMatchedPositions (positions counted from 0, as in the code)
getMatchedPositions(predicted, actual) ==
    LET minLen == Min(Len(predicted), Len(actual))
        M[i \in 0..minLen] ==
            IF i = 0 THEN <<>>
            ELSE IF predicted[i] = actual[i] THEN Append(M[i - 1], i - 1) ELSE M[i - 1]
    IN M[minLen]

\* performDetailedValidation with the threshold of a partial match at 1.
performDetailedValidationThresholdOne(pred, act) ==
    IF isExactMatch(pred, act)
    THEN [IsCorrect |-> TRUE, MatchType |-> "exact", MatchedPositions |-> <<0, 1, 2>>,
          PredictedSum |-> CalculateSum(pred), ActualSum |-> CalculateSum(act)]
    ELSE LET matchedPositions == getMatchedPositions(pred, act) IN
         IF Len(matchedPositions) > 0
         THEN [IsCorrect |-> Len(matchedPositions) >= 1, MatchType |-> "partial",
               MatchedPositions |-> matchedPositions,
               PredictedSum |-> CalculateSum(pred), ActualSum |-> CalculateSum(act)]
         ELSE [IsCorrect |-> FALSE, MatchType |-> "none", MatchedPositions |-> <<>>,
               PredictedSum |-> CalculateSum(pred), ActualSum |-> CalculateSum(act)]

\* Validator.performDetailedValidation: an exact match is correct; otherwise
\* at least 2 matched positions are.
performDetailedValidation(pred, act) ==
    IF isExactMatch(pred, act)
    THEN [IsCorrect |-> TRUE, MatchType |-> "exact", MatchedPositions |-> <<0, 1, 2>>,
          PredictedSum |-> CalculateSum(pred), ActualSum |-> CalculateSum(act)]
    ELSE LET matchedPositions == getMatchedPositions(pred, act) IN
         IF Len(matchedPositions) > 0
         THEN [IsCorrect |-> Len(matchedPositions) >= 2, MatchType |-> "partial",
               MatchedPositions |-> matchedPositions,
               PredictedSum |-> CalculateSum(pred), ActualSum |-> CalculateSum(act)]
         ELSE [IsCorrect |-> FALSE, MatchType |-> "none", MatchedPositions |-> <<>>,
               PredictedSum |-> CalculateSum(pred), ActualSum |-> CalculateSum(act)]

\* Validator.ValidatePrediction: [err, result, ps]. `readFails` is a failing
\* GetLatestPredictions, `writeFails` a failing MySQLDB.ValidatePrediction
\* (logged; the detailed result is then returned as it is). When the store's
\* validation succeeds its flag replaces the detailed one.
ValidatorValidatePrediction(ps, qihao, actualResult, now, readFails, writeFails) ==
    LET predictions == GetLatestPredictions(ps, ValidatorWindow)
        hits == { i \in DOMAIN predictions : predictions[i].target_qihao = qihao }
    IN IF readFails \/ hits = {}
       THEN [err |-> TRUE, result |-> <<>>, ps |-> ps]
       ELSE LET targetPrediction == predictions[CHOOSE i \in hits : \A j \in hits : i <= j]
                predictedNums == ParseOpenNum(targetPrediction.predicted_num)
                actualNums == ParseOpenNum(actualResult.opennum)
            IN IF ~predictedNums.ok \/ ~actualNums.ok
               THEN [err |-> TRUE, result |-> <<>>, ps |-> ps]
               ELSE LET detailed == performDetailedValidation(predictedNums.nums, actualNums.nums)
                        db == DbValidatePrediction(ps, qihao, actualResult, now)
                    IN IF writeFails \/ ~db.found
                       THEN [err |-> FALSE, result |-> <<detailed>>, ps |-> ps]
                       ELSE [err |-> FALSE,
                             result |-> << [detailed EXCEPT !.IsCorrect = db.isCorrect] >>,
                             ps |-> db.ps]

\* MySQLDB.GetPredictionStats: [ok, stats] over the verified rows. The
\* accuracy is ROUND(correct * 100.0 / total, 2) in hundredths of a percent;
\* with no verified row the aggregates are NULL and the Scan fails.
GetPredictionStats(ps) ==
    LET verified == { p \in PredRows(ps) : p.is_correct # Null }
        total == Cardinality(verified)
        correct == Cardinality({ p \in verified : p.is_correct = 1 })
    IN IF total = 0 THEN [ok |-> FALSE, stats |-> <<>>]
       ELSE [ok |-> TRUE,
             stats |-> << [total_predictions   |-> total,
                           correct_predictions |-> correct,
                           accuracy_rate       |-> (2 * correct * 10000 + total) \div (2 * total)] >>]

\* ------------------------------------------------------------- cache manager
\* A cache key is the sequence of its ":"-separated segments. An entry is
\* <<>> (absent or expired) or <<value>>. A value read back from the memory
\* cache is a JSON copy, equal to the value stored.
KeyLatest == <<"lottery", "latest">>
KeyLast3 == <<"lottery", "last3">>
KeyLast10 == <<"lottery", "last10">>
KeyPredLatest == <<"prediction", "latest">>
KeyPredHistory10 == <<"prediction", "history", "10">>
KeyStats == <<"stats", "accuracy">>
CacheKeys == {KeyLatest, KeyLast3, KeyLast10, KeyPredLatest, KeyPredHistory10, KeyStats}

EmptyCache == [k \in CacheKeys |-> <<>>]

\* matchPattern without the wildcard: only the equal key matches.
matchPatternExact(pattern, key) == pattern = key

\* matchPattern: "*" matches every key, a pattern ending in "*" the keys that
\* start with the rest, any other pattern the equal key.
matchPattern(pattern, key) ==
    IF pattern = <<"*">> THEN TRUE
    ELSE IF Len(pattern) > 0 /\ pattern[Len(pattern)] = "*"
         THEN /\ Len(key) >= Len(pattern) - 1
              /\ SubSeq(key, 1, Len(pattern) - 1) = SubSeq(pattern, 1, Len(pattern) - 1)
         ELSE pattern = key

\* CacheManager.InvalidatePattern (MemoryCache.DeletePattern)
InvalidatePattern(c, pattern) ==
    [k \in CacheKeys |-> IF matchPattern(pattern, k) THEN <<>> ELSE c[k]]

\* CacheManager.Set (MemoryCache.Set)
CacheSet(c, key, value) == [c EXCEPT ![key] = <<value>>]

\* CacheManager.OnNewLotteryData; q3Fails / q10Fails are failing store reads.
OnNewLotteryData(c, rs, data, q3Fails, q10Fails) ==
    LET c1 == InvalidatePattern(InvalidatePattern(c, <<"lottery", "*">>), <<"prediction", "*">>)
        c2 == CacheSet(c1, KeyLatest, data)
        c3 == IF q3Fails THEN c2 ELSE CacheSet(c2, KeyLast3, GetLatestLotteryResults(rs, 3))
    IN IF q10Fails THEN c3 ELSE CacheSet(c3, KeyLast10, GetLatestLotteryResults(rs, 10))

\* CacheManager.OnPredictionGenerated
OnPredictionGenerated(c, ps, prediction, qFails) ==
    LET c1 == InvalidatePattern(InvalidatePattern(c, <<"prediction", "*">>), <<"stats", "*">>)
        c2 == CacheSet(c1, KeyPredLatest, prediction)
    IN IF qFails THEN c2 ELSE CacheSet(c2, KeyPredHistory10, GetLatestPredictions(ps, 10))

\* CacheManager.OnPredictionVerified
OnPredictionVerified(c, ps, qStatsFails, qHistFails) ==
    LET c1 == InvalidatePattern(InvalidatePattern(c, <<"stats", "*">>),
                                <<"prediction", "history", "*">>)
        st == GetPredictionStats(ps)
        c2 == IF qStatsFails \/ ~st.ok THEN c1 ELSE CacheSet(c1, KeyStats, st.stats[1])
    IN IF qHistFails THEN c2 ELSE CacheSet(c2, KeyPredHistory10, GetLatestPredictions(ps, 10))

\* CacheManager.GetLatestLotteryData: [ok, value, cache]; on a miss the
\* newest stored round (by opentime) is read and cached.
GetLatestLotteryData(c, rs, dbFails) ==
    IF c[KeyLatest] # <<>> THEN [ok |-> TRUE, value |-> c[KeyLatest], cache |-> c]
    ELSE LET results == GetLatestLotteryResults(rs, 1) IN
         IF dbFails \/ Len(results) = 0 THEN [ok |-> FALSE, value |-> <<>>, cache |-> c]
         ELSE [ok |-> TRUE, value |-> <<results[1]>>, cache |-> CacheSet(c, KeyLatest, results[1])]

\* CacheManager.GetLast3LotteryData: [ok, value, cache]
GetLast3LotteryData(c, rs, dbFails) ==
    IF c[KeyLast3] # <<>> THEN [ok |-> TRUE, value |-> c[KeyLast3][1], cache |-> c]
    ELSE IF dbFails THEN [ok |-> FALSE, value |-> <<>>, cache |-> c]
         ELSE LET results == GetLatestLotteryResults(rs, 3)
              IN [ok |-> TRUE, value |-> results, cache |-> CacheSet(c, KeyLast3, results)]

\* CacheManager.GetLatestPrediction: [ok, value, cache]
GetLatestPrediction(c, ps, dbFails) ==
    IF c[KeyPredLatest] # <<>> THEN [ok |-> TRUE, value |-> c[KeyPredLatest], cache |-> c]
    ELSE LET predictions == GetLatestPredictions(ps, 1) IN
         IF dbFails \/ Len(predictions) = 0 THEN [ok |-> FALSE, value |-> <<>>, cache |-> c]
         ELSE [ok |-> TRUE, value |-> <<predictions[1]>>,
               cache |-> CacheSet(c, KeyPredLatest, predictions[1])]

\* ------------------------------------------------------------- state
\* The n-th round of the source, published in year y with draw d and a sum
\* that is off by e.
SourceRound(n, y, d, e) ==
    [qihao    |-> FirstQihao + n - 1,
     opentime |-> CalendarPos(n, y),
     opennum  |-> d,
     sum      |-> CalculateSum(d) + e]

VARIABLES
    year,           \* the calendar year the process clock shows (0..MaxYear)
    published,      \* rounds the source has published
    source,         \* the source's rounds, newest first
    rounds,         \* table lottery_results
    preds,          \* table predictions
    nextId,         \* AUTO_INCREMENT of predictions
    clock,          \* the logical clock of the stamps
    cache,          \* the CacheManager's memory cache
    notifications,  \* the calls of BroadcastNewPrediction
    pc,             \* the orchestrator's position
    booting,        \* Start has not returned: the loops are not running yet
    cur,            \* latestData of the running cycle (<<>>: none)
    observed,       \* the identifier the running generation answers to
    draft,          \* the prediction being generated, then the one saved
    validation,     \* the result Validator.ValidatePrediction returned
    cycleStart,     \* the clock when the running cycle began
    log,            \* history: the steps the running cycle has taken
    issued,         \* history: [observed, target] of every forecast persisted
    sweeps,         \* retention sweeps so far
    restarts,       \* restarts so far
    expiries,       \* cache entries expired so far
    faults,         \* failed calls (source, store) so far
    predicted,      \* classification check: the predicted draw
    actual,         \* classification check: the actual draw
    verdict,        \* classification check: performDetailedValidation's result
    mItems,         \* MemoryCache.items: key -> MemoryItem (<<>>: no entry)
    mSize,          \* MemoryCache.size
    mNow,           \* time.Now() as the cache's callers see it
    mThreads,       \* the goroutines calling the MemoryCache, with their locals
    mOps,           \* cache operations the callers have yet to start
    mWritten,       \* history: key -> [value, expires] of the Set whose entry
                    \* no Set, Delete, DeletePattern or eviction has replaced
    iHeap,          \* Go values by reference: backing array -> its elements
    iEntry,         \* the backing array of the list one cache entry holds (0: no entry)
    iHeld,          \* caller -> the backing array of the list Get handed it (0: none)
    iNext,          \* the next backing array to allocate
    monitorPc,      \* dataMonitorLoop: "select", "cycle" or "exited"
    cycles,         \* the running calls of processDataUpdate: each one's position in CycleSteps
    tickPending,    \* the polling ticker's channel holds a tick
    cleanupPc,      \* dataCleanupLoop: "select", "clean" or "exited"
    cleanTickPending, \* the retention ticker's channel holds a tick
    stopPc,         \* App.Stop: the last statement it has executed
    stopMidCycle,   \* history: Stop sent its signal while a cycle was running
    rStore,         \* readers check: view -> the version of it the store holds
    rCache,         \* readers check: view -> the version the cache holds (0: no entry)
    rReaders,       \* readers check: the goroutines reading through the CacheManager
    rCycle,         \* readers check: the statements of CycleStatements the cycle has done
    rCycles,        \* readers check: cycles begun so far
    sRows,          \* statistics check: the rows of predictions (id, is_correct)
    sStats          \* statistics check: what GetPredictionStats last returned (<<>>: not called)

storeVars == <<rounds, preds, nextId>>
orchVars == <<year, published, source, rounds, preds, nextId, clock, cache,
              notifications, pc, booting, cur, observed, draft, validation,
              cycleStart, log, issued, sweeps, restarts, expiries, faults>>
classVars == <<predicted, actual, verdict>>
memVars == <<mItems, mSize, mNow, mThreads, mOps, mWritten>>
isoVars == <<iHeap, iEntry, iHeld, iNext>>
\* What the orchestrator's steps, the classification, the MemoryCache on its
\* own and the read-through Get leave alone.
lifeVars == <<monitorPc, cycles, tickPending, cleanupPc, cleanTickPending,
              stopPc, stopMidCycle>>
readVars == <<rStore, rCache, rReaders, rCycle, rCycles>>
statVars == <<sRows, sStats>>
sideVars == <<classVars, memVars, isoVars, lifeVars, readVars, statVars>>
notClass == <<orchVars, memVars, isoVars, lifeVars, readVars, statVars>>
notMem == <<orchVars, classVars, isoVars, lifeVars, readVars, statVars>>
notIso == <<orchVars, classVars, memVars, lifeVars, readVars, statVars>>
notLife == <<orchVars, classVars, memVars, isoVars, readVars, statVars>>
notRead == <<orchVars, classVars, memVars, isoVars, lifeVars, statVars>>
notStat == <<orchVars, classVars, memVars, isoVars, lifeVars, readVars>>
vars == <<orchVars, sideVars>>
envVars == <<year, published, source>>
countVars == <<sweeps, restarts, expiries>>

\* ------------------------------------------------------------- MemoryCache state
\* The MemoryCache on its own: goroutines call Set, Get, Exists, Delete,
\* DeletePattern and the background cleanupExpired, one statement on the
\* shared fields (items, size, time.Now()) per step.  SetTTL, GetTTL, Clear,
\* Size and Stats have no caller in the program and are left out.

\* Goroutines using the cache at once.
NThreads == 2
\* maxSize of NewMemoryCache (the CacheManager passes 1000).
MaxSize == 2
\* The largest ttl a caller passes, and the last instant of the clock.
MaxTTL == 2
MaxTime == 2
\* Cache operations started in one behaviour: by callers taking turns, and
\* by callers running at once.
MaxOps == 3
MaxConcurrentOps == 2

Threads == 1..NThreads
MemKeys == {KeyLatest, KeyLast3, KeyPredLatest}
MemPatterns == {<<"*">>, <<"lottery", "*">>, KeyLatest}
\* Cached values: lists of numbers of one or two digits.
MemValues == {<<7>>, <<12, 3>>}
NoItem == <<>>

\* The locals of a goroutine that is not inside a cache operation.
IdleThread ==
    [op |-> "idle", pc |-> "idle", key |-> <<>>, pattern |-> <<>>,
     value |-> <<>>, start |-> 0, ttl |-> 0, item |-> NoItem, keys |-> {},
     count |-> 0, at |-> 0, result |-> <<>>, snap |-> <<>>, snapSize |-> 0]

\* NewMemoryCache: no entry, size 0.
EmptyItems == [k \in MemKeys |-> NoItem]

\* Backing arrays a behaviour may allocate.
MaxRefs == 4

\* The read-through Get while it is not what is being explored.
IsolationIdle ==
    /\ iHeap = [r \in 1..MaxRefs |-> <<>>] /\ iEntry = 0
    /\ iHeld = [c \in Threads |-> 0] /\ iNext = 1

\* The MemoryCache variables while the cache is not what is being explored.
MemoryIdle ==
    /\ mItems = EmptyItems /\ mSize = 0 /\ mNow = 0
    /\ mThreads = [t \in Threads |-> IdleThread]
    /\ mOps = 0 /\ mWritten = EmptyItems

InitOrch ==
    /\ year = 0 /\ published = InitialRounds
    /\ source = [i \in 1..InitialRounds |-> SourceRound(InitialRounds + 1 - i, 0, <<2, 4, 0>>, 0)]
    /\ rounds = {} /\ preds = <<>> /\ nextId = 1 /\ clock = 1
    /\ cache = EmptyCache /\ notifications = <<>>
    /\ pc = "boot" /\ booting = TRUE
    /\ cur = <<>> /\ observed = Null /\ draft = <<>> /\ validation = <<>>
    /\ cycleStart = 0
    /\ log = <<>> /\ issued = <<>> /\ sweeps = 0 /\ restarts = 0 /\ expiries = 0
    /\ faults = 0

\* The classification inputs while nothing is being classified.
ClassifyIdle == predicted = <<>> /\ actual = <<>> /\ verdict = <<>>

\* Everything but the orchestrator, at rest.
\* The loops and Stop as Start leaves them: both loops at their select, no
\* cycle running, no tick delivered, Stop not called.
LifeIdle ==
    /\ monitorPc = "select" /\ cycles = <<>> /\ tickPending = FALSE
    /\ cleanupPc = "select" /\ cleanTickPending = FALSE
    /\ stopPc = "running" /\ stopMidCycle = FALSE

\* The views the readers ask for, and a reader that is not reading.
ReadKeys == {KeyLatest, KeyPredHistory10}
IdleReader == [pc |-> "idle", key |-> <<>>, data |-> 0, begun |-> 0, quiet |-> FALSE]

\* The store holds version 1 of either view, the cache nothing, nobody reads
\* and no cycle runs (the state Start leaves when entries have expired).
ReadIdle ==
    /\ rStore = [k \in ReadKeys |-> 1] /\ rCache = [k \in ReadKeys |-> 0]
    /\ rReaders = [t \in Threads |-> IdleReader]
    /\ rCycle = 0 /\ rCycles = 0

StatIdle == sRows = <<>> /\ sStats = <<>>

SideIdle ==
    ClassifyIdle /\ MemoryIdle /\ IsolationIdle /\ LifeIdle /\ ReadIdle /\ StatIdle

Init == InitOrch /\ SideIdle

\* ------------------------------------------------------------- environment
\* The source publishes the next round: the next identifier, any draw, and a
\* sum that may disagree with the draw. Only the fetches read the source, so
\* publishing while a cycle runs is publishing after it.
Publish ==
    /\ pc \in {"idle", "boot"}
    /\ published < MaxRounds
    /\ \E d \in Draws : \E e \in SumErrs(d) :
         source' = << SourceRound(published + 1, year, d, e) >> \o source
    /\ published' = published + 1
    /\ UNCHANGED <<year, rounds, preds, nextId, clock, cache, notifications, pc,
                   booting, cur, observed, draft, validation,
                   cycleStart, log, issued, sweeps, restarts, expiries, faults, sideVars>>

\* The calendar year ends (only the fetches read the year).
NewYear ==
    /\ pc \in {"idle", "boot"}
    /\ year < MaxYear
    /\ year' = year + 1
    /\ UNCHANGED <<published, source, rounds, preds, nextId, clock, cache,
                   notifications, pc, booting, cur, observed, draft, validation,
                   cycleStart, log, issued, sweeps, restarts, expiries, faults, sideVars>>

\* An entry of the memory cache reaches its TTL between two cycles.
Expire ==
    /\ pc = "idle"
    /\ expiries < MaxExpiries
    /\ expiries' = expiries + 1
    /\ \E k \in CacheKeys :
         /\ cache[k] # <<>>
         /\ cache' = [cache EXCEPT ![k] = <<>>]
    /\ UNCHANGED <<year, published, source, rounds, preds, nextId, clock,
                   notifications, pc, booting, cur, observed, draft, validation,
                   cycleStart, log, issued, sweeps, restarts, faults,
                   sideVars>>

\* ------------------------------------------------------------- failures
\* Whether a call may fail now, and the number of failures among flags.
Faulty == IF faults < MaxFaults THEN BOOLEAN ELSE {FALSE}
B(f) == IF f THEN 1 ELSE 0

\* ------------------------------------------------------------- startup
\* The save loop of initializeHistoricalData, newest round first: a round is
\* saved when it is missing or its lookup failed, unless its save fails.
\* outcome[i] is "ok", "lookup_err" or "save_err" for the i-th round.
RECURSIVE SaveHistoricalData(_, _, _, _, _)
SaveHistoricalData(rs, clk, historicalData, outcome, i) ==
    IF i > Len(historicalData) THEN [rs |-> rs, clock |-> clk]
    ELSE LET data == historicalData[i]
             missing == GetLotteryResultByQihao(rs, data.qihao) = {}
             saved == (outcome[i] = "lookup_err" \/ missing) /\ outcome[i] # "save_err"
         IN IF saved
            THEN SaveHistoricalData(SaveLotteryResult(rs, data, clk),
                                    IF missing THEN clk + 1 ELSE clk,
                                    historicalData, outcome, i + 1)
            ELSE SaveHistoricalData(rs, clk, historicalData, outcome, i + 1)

\* App.syncPredictionVerifications over the list read at its start: every
\* unverified prediction whose target is in the fetched window is validated;
\* writeFails are the targets whose store validation fails.
RECURSIVE SyncPredictionVerifications(_, _, _, _, _, _)
SyncPredictionVerifications(ps, clk, unverified, historicalData, writeFails, i) ==
    IF i > Len(unverified) THEN [ps |-> ps, clock |-> clk]
    ELSE LET target == unverified[i].target_qihao
             hits == { j \in DOMAIN historicalData : historicalData[j].qihao = target }
         IN IF hits = {}
            THEN SyncPredictionVerifications(ps, clk, unverified, historicalData, writeFails, i + 1)
            ELSE LET lotteryResult == historicalData[CHOOSE j \in hits : \A k \in hits : k <= j]
                     v == ValidatorValidatePrediction(ps, target, lotteryResult, clk,
                                                      FALSE, target \in writeFails)
                 IN SyncPredictionVerifications(v.ps, IF v.ps # ps THEN clk + 1 ELSE clk,
                                                unverified, historicalData, writeFails, i + 1)

\* The outcomes of the save loop: per round, a failing lookup or save.
SaveOutcomes(n) ==
    { o \in [1..n -> {"ok", "lookup_err", "save_err"}] :
        Cardinality({ i \in 1..n : o[i] # "ok" }) <= MaxFaults - faults }

\* processDataUpdate / generateNewPrediction / initializeHistoricalData
\* return: the locals are gone, the loops run.
EndCycle ==
    /\ pc' = "idle" /\ booting' = FALSE
    /\ cur' = <<>> /\ observed' = Null /\ draft' = <<>> /\ validation' = <<>>
    /\ log' = <<>> /\ cycleStart' = 0

\* App.initializeHistoricalData up to its cache update: fetch the window, save
\* the missing rounds, verify the pending predictions the window covers,
\* delete the pending predictions below the newest fetched identifier, and
\* refresh the cache with the newest fetched round. A failed fetch is logged
\* by Start, which then starts the loops all the same.
InitializeHistoricalData ==
    /\ pc = "boot"
    /\ \E apiFails \in Faulty :
         LET h == GetHistoricalData(source, year, HistoryLimit) IN
         IF apiFails \/ ~h.ok
         THEN /\ EndCycle
              /\ faults' = faults + B(apiFails)
              /\ UNCHANGED <<rounds, preds, clock, cache>>
         ELSE \E outcome \in SaveOutcomes(Len(h.results)),
                 listFails \in Faulty,
                 writeFails \in SUBSET { preds[i].target_qihao : i \in DOMAIN preds },
                 cleanupFails \in Faulty, q3Fails \in Faulty, q10Fails \in Faulty :
                LET failed == Cardinality({ i \in DOMAIN outcome : outcome[i] # "ok" })
                              + B(listFails) + Cardinality(writeFails)
                              + B(cleanupFails) + B(q3Fails) + B(q10Fails)
                    saved == SaveHistoricalData(rounds, clock, h.results, outcome, 1)
                    synced == IF listFails THEN [ps |-> preds, clock |-> saved.clock]
                              ELSE SyncPredictionVerifications(preds, saved.clock,
                                       GetUnverifiedPredictions(preds), h.results, writeFails, 1)
                    cleaned == IF cleanupFails THEN synced.ps
                               ELSE CleanupExpiredPredictions(synced.ps, h.results[1].qihao)
                IN /\ faults + failed <= MaxFaults
                   /\ faults' = faults + failed
                   /\ rounds' = saved.rs
                   /\ preds' = cleaned
                   /\ clock' = synced.clock
                   /\ cache' = OnNewLotteryData(cache, saved.rs, h.results[1], q3Fails, q10Fails)
                   /\ observed' = h.results[1].qihao
                   /\ pc' = "ensure"
                   /\ UNCHANGED <<booting, cur, draft, validation, log, cycleStart>>
    /\ UNCHANGED <<envVars, nextId, notifications, issued, countVars, sideVars>>

\* App.ensureLatestPrediction: generate when there is no prediction or the
\* newest one does not target the identifier after the latest round's.
EnsureLatestPrediction ==
    /\ pc = "ensure"
    /\ \E f1 \in Faulty, f2 \in Faulty :
         LET latestLottery == GetLatestLotteryData(cache, rounds, f1)
             latestPrediction == GetLatestPrediction(latestLottery.cache, preds, f2)
         IN /\ faults + B(f1) + B(f2) <= MaxFaults
            /\ f1 => cache[KeyLatest] = <<>>
            /\ f2 => latestLottery.ok /\ latestLottery.cache[KeyPredLatest] = <<>>
            /\ faults' = faults + B(f1) + B(f2)
            /\ IF ~latestLottery.ok
               THEN /\ EndCycle
                    /\ cache' = latestLottery.cache
               ELSE /\ cache' = latestPrediction.cache
                    /\ IF \/ ~latestPrediction.ok
                          \/ latestPrediction.value[1].target_qihao
                               # AppGenerateNextQihao(latestLottery.value[1].qihao)
                       THEN /\ pc' = "generate"
                            /\ UNCHANGED <<booting, cur, observed, draft, validation,
                                           log, cycleStart>>
                       ELSE EndCycle
    /\ UNCHANGED <<envVars, rounds, preds, nextId, clock, notifications, issued,
                   countVars, sideVars>>

\* ------------------------------------------------------------- polling cycle
\* processDataUpdate, FetchAndValidateLatestData: the newest round of the
\* source, or an error.  FetchLotteryData makes attempts 0..RetryCount and
\* returns at the first that succeeds; it fails when every attempt fails.
Fetch ==
    /\ pc = "idle"
    /\ \E attemptFails \in [0..RetryCount -> Faulty] :
         LET apiFails == \A attempt \in 0..RetryCount : attemptFails[attempt]
             f == FetchAndValidateLatestData(source, year) IN
         /\ faults' = faults + B(apiFails)
         /\ IF apiFails \/ ~f.ok
            THEN /\ pc' = "failed"
                 /\ UNCHANGED <<booting, cur, observed, draft, validation, log,
                                cycleStart>>
            ELSE /\ cur' = f.r /\ observed' = f.r[1].qihao /\ cycleStart' = clock
                 /\ pc' = "check"
                 /\ UNCHANGED <<booting, draft, validation, log>>
    /\ UNCHANGED <<envVars, rounds, preds, nextId, clock, cache, notifications,
                   issued, countVars, sideVars>>

\* An error branch that drops the cache before it returns.
FetchFailedClearingCache ==
    /\ pc = "failed"
    /\ EndCycle
    /\ cache' = EmptyCache
    /\ UNCHANGED <<envVars, rounds, preds, nextId, clock, notifications,
                   issued, countVars, faults, sideVars>>

\* processDataUpdate's error branch after the fetch: the error is returned
\* to dataMonitorLoop, which waits for the next tick.
FetchFailed ==
    /\ pc = "failed"
    /\ EndCycle
    /\ UNCHANGED <<envVars, rounds, preds, nextId, clock, cache, notifications,
                   issued, countVars, faults, sideVars>>

\* CheckNew without the novelty test: every fetched round is processed.
CheckNewIgnoringNovelty ==
    /\ pc = "check"
    /\ \E dbFails \in Faulty :
         /\ faults' = faults + B(dbFails)
         /\ IF dbFails
            THEN EndCycle
            ELSE /\ pc' = "save"
                 /\ UNCHANGED <<booting, cur, observed, draft, validation, log, cycleStart>>
    /\ UNCHANGED <<envVars, rounds, preds, nextId, clock, cache, notifications,
                   issued, countVars, sideVars>>

\* processDataUpdate, CheckNewQihao: a round already stored ends the tick.
CheckNew ==
    /\ pc = "check"
    /\ \E dbFails \in Faulty :
         /\ faults' = faults + B(dbFails)
         /\ IF dbFails \/ ~CheckNewQihao(rounds, cur[1].qihao)
            THEN EndCycle
            ELSE /\ pc' = "save"
                 /\ UNCHANGED <<booting, cur, observed, draft, validation, log, cycleStart>>
    /\ UNCHANGED <<envVars, rounds, preds, nextId, clock, cache, notifications,
                   issued, countVars, sideVars>>

\* processDataUpdate's error branch after SaveLotteryResult: "failed to save
\* lottery result" is returned to dataMonitorLoop.
SaveFailed ==
    /\ pc = "save_failed"
    /\ EndCycle
    /\ UNCHANGED <<envVars, rounds, preds, nextId, clock, cache, notifications,
                   issued, countVars, faults, sideVars>>

\* A save that writes the row and then reports the error.
SaveRoundWritingBeforeError ==
    /\ pc = "save"
    /\ \E dbFails \in Faulty :
         /\ faults' = faults + B(dbFails)
         /\ IF dbFails
            THEN /\ pc' = "save_failed"
                 /\ rounds' = SaveLotteryResult(rounds, cur[1], clock)
                 /\ UNCHANGED <<clock, booting, cur, observed, draft, validation,
                                log, cycleStart>>
            ELSE /\ rounds' = SaveLotteryResult(rounds, cur[1], clock)
                 /\ clock' = clock + 1
                 /\ pc' = "cache_round" /\ log' = Append(log, "persist_round")
                 /\ UNCHANGED <<booting, cur, observed, draft, validation, cycleStart>>
    /\ UNCHANGED <<envVars, preds, nextId, cache, notifications, issued,
                   countVars, sideVars>>

\* processDataUpdate, SaveLotteryResult
SaveRound ==
    /\ pc = "save"
    /\ \E dbFails \in Faulty :
         /\ faults' = faults + B(dbFails)
         /\ IF dbFails
            THEN /\ pc' = "save_failed"
                 /\ UNCHANGED <<rounds, clock, booting, cur, observed, draft,
                                validation, log, cycleStart>>
            ELSE /\ rounds' = SaveLotteryResult(rounds, cur[1], clock)
                 /\ clock' = clock + 1
                 /\ pc' = "cache_round" /\ log' = Append(log, "persist_round")
                 /\ UNCHANGED <<booting, cur, observed, draft, validation, cycleStart>>
    /\ UNCHANGED <<envVars, preds, nextId, cache, notifications, issued,
                   countVars, sideVars>>

\* CacheRound followed by the generation at once, without the verification.
CacheRoundSkippingVerify ==
    /\ pc = "cache_round"
    /\ \E q3Fails \in Faulty, q10Fails \in Faulty :
         /\ faults + B(q3Fails) + B(q10Fails) <= MaxFaults
         /\ faults' = faults + B(q3Fails) + B(q10Fails)
         /\ cache' = OnNewLotteryData(cache, rounds, cur[1], q3Fails, q10Fails)
    /\ pc' = "generate" /\ log' = Append(log, "cache_round")
    /\ UNCHANGED <<envVars, rounds, preds, nextId, clock, notifications, booting,
                   cur, observed, draft, validation, cycleStart,
                   issued, countVars, sideVars>>

\* processDataUpdate, CacheManager.OnNewLotteryData (its error is only logged)
CacheRound ==
    /\ pc = "cache_round"
    /\ \E q3Fails \in Faulty, q10Fails \in Faulty :
         /\ faults + B(q3Fails) + B(q10Fails) <= MaxFaults
         /\ faults' = faults + B(q3Fails) + B(q10Fails)
         /\ cache' = OnNewLotteryData(cache, rounds, cur[1], q3Fails, q10Fails)
    /\ pc' = "verify" /\ log' = Append(log, "cache_round")
    /\ UNCHANGED <<envVars, rounds, preds, nextId, clock, notifications, booting,
                   cur, observed, draft, validation, cycleStart,
                   issued, countVars, sideVars>>

\* verifyPreviousPrediction, Validator.ValidatePrediction for the round just
\* saved; an error skips the cache update and is only logged by the caller.
Verify ==
    /\ pc = "verify"
    /\ \E readFails \in Faulty, writeFails \in Faulty :
         LET v == ValidatorValidatePrediction(preds, cur[1].qihao, cur[1], clock,
                                              readFails, writeFails)
         IN /\ ~(readFails /\ writeFails)
            /\ faults' = faults + B(readFails) + B(writeFails)
            /\ preds' = v.ps
            /\ clock' = IF v.ps # preds THEN clock + 1 ELSE clock
            /\ validation' = v.result
            /\ log' = IF v.ps # preds THEN log \o <<"verify", "outcome_written">>
                      ELSE Append(log, "verify")
            /\ pc' = IF v.err THEN "generate" ELSE "cache_verified"
    /\ UNCHANGED <<envVars, rounds, nextId, cache, notifications, booting, cur,
                   observed, draft, cycleStart, issued, countVars,
                   sideVars>>

\* verifyPreviousPrediction, CacheManager.OnPredictionVerified
CacheVerified ==
    /\ pc = "cache_verified"
    /\ \E qStatsFails \in Faulty, qHistFails \in Faulty :
         /\ faults + B(qStatsFails) + B(qHistFails) <= MaxFaults
         /\ faults' = faults + B(qStatsFails) + B(qHistFails)
         /\ cache' = OnPredictionVerified(cache, preds, qStatsFails, qHistFails)
    /\ pc' = "generate" /\ log' = Append(log, "cache_verified")
    /\ UNCHANGED <<envVars, rounds, preds, nextId, clock, notifications, booting,
                   cur, observed, draft, validation, cycleStart,
                   issued, countVars, sideVars>>

\* generateNewPrediction up to the Prediction it builds: the latest 3 rounds
\* through the cache, the predictor, the predicted sum and parity.
Generate ==
    /\ pc = "generate"
    /\ \E dbFails \in Faulty :
         LET historyData == GetLast3LotteryData(cache, rounds, dbFails)
             predictionResult == Predict(historyData.value, clock)
         IN /\ dbFails => cache[KeyLast3] = <<>>
            /\ faults' = faults + B(dbFails)
            /\ cache' = historyData.cache
            /\ IF ~historyData.ok \/ Len(historyData.value) < 3 \/ ~predictionResult.ok
               THEN EndCycle /\ UNCHANGED clock
               ELSE LET r == predictionResult.result[1]
                        predictedSum == CalculateSum(ParseOpenNum(r.predicted_num).nums)
                    IN /\ draft' = << [id                 |-> 0,
                                       target_qihao       |-> r.target_qihao,
                                       predicted_num      |-> r.predicted_num,
                                       predicted_sum      |-> predictedSum,
                                       predicted_odd_even |-> CalculateOddEven(predictedSum),
                                       predicted_at       |-> r.timestamp,
                                       actual_num         |-> NullNum,
                                       actual_sum         |-> Null,
                                       actual_odd_even    |-> NullStr,
                                       is_correct         |-> Null,
                                       verified_at        |-> Null] >>
                       /\ clock' = clock + 1
                       /\ pc' = "save_pred" /\ log' = Append(log, "generate")
                       /\ UNCHANGED <<booting, cur, observed, validation, cycleStart>>
    /\ UNCHANGED <<envVars, rounds, preds, nextId, notifications, issued,
                   countVars, sideVars>>

\* generateNewPrediction, SavePrediction: the INSERT sets the row's id.
SavePred ==
    /\ pc = "save_pred"
    /\ \E dbFails \in Faulty :
         /\ faults' = faults + B(dbFails)
         /\ IF dbFails
            THEN EndCycle /\ UNCHANGED <<preds, nextId, issued>>
            ELSE LET saved == SavePrediction(preds, draft[1], nextId) IN
                 /\ preds' = saved
                 /\ nextId' = nextId + 1
                 /\ draft' = << saved[Len(saved)] >>
                 /\ issued' = Append(issued, [observed |-> observed,
                                              target   |-> draft[1].target_qihao])
                 /\ pc' = "cache_pred" /\ log' = Append(log, "persist_forecast")
                 /\ UNCHANGED <<booting, cur, observed, validation, cycleStart>>
    /\ UNCHANGED <<envVars, rounds, clock, cache, notifications, countVars,
                   sideVars>>

\* generateNewPrediction, CacheManager.OnPredictionGenerated
CachePred ==
    /\ pc = "cache_pred"
    /\ \E qFails \in Faulty :
         /\ faults' = faults + B(qFails)
         /\ cache' = OnPredictionGenerated(cache, preds, draft[1], qFails)
    /\ pc' = "notify" /\ log' = Append(log, "cache_forecast")
    /\ UNCHANGED <<envVars, rounds, preds, nextId, clock, notifications, booting,
                   cur, observed, draft, validation, cycleStart,
                   issued, countVars, sideVars>>

\* generateNewPrediction, BroadcastNewPrediction with the latest round read
\* through the cache (<<>> when that read fails), then the return.
Notify ==
    /\ pc = "notify"
    /\ \E dbFails \in Faulty :
         LET latestResult == GetLatestLotteryData(cache, rounds, dbFails) IN
         /\ dbFails => cache[KeyLatest] = <<>>
         /\ faults' = faults + B(dbFails)
         /\ cache' = latestResult.cache
         /\ notifications' =
              Append(notifications,
                     [target |-> draft[1].target_qihao,
                      latest |-> IF latestResult.ok THEN latestResult.value[1].qihao
                                 ELSE Null])
    /\ EndCycle
    /\ UNCHANGED <<envVars, rounds, preds, nextId, clock, issued, countVars,
                   sideVars>>

\* ------------------------------------------------------------- retention, restart
\* A sweep that also empties the memory cache.
CleanOldDataDroppingCache ==
    /\ ~booting
    /\ sweeps < MaxSweeps
    /\ LET limit == IF pc = "idle" THEN clock ELSE cycleStart IN
       \E horizon \in 0..limit, outcome \in {"ok", "fail1", "fail2"} :
         /\ outcome # "ok" => faults < MaxFaults
         /\ faults' = faults + B(outcome # "ok")
         /\ rounds' = IF outcome = "fail1" THEN rounds
                      ELSE CleanOldLotteryResults(rounds, horizon)
         /\ preds' = IF outcome = "ok" THEN CleanOldPredictions(preds, horizon) ELSE preds
    /\ sweeps' = sweeps + 1
    /\ cache' = EmptyCache
    /\ UNCHANGED <<envVars, nextId, clock, notifications, pc, booting, cur,
                   observed, draft, validation, cycleStart, log,
                   issued, restarts, expiries, sideVars>>

\* dataCleanupLoop, MySQLDB.CleanOldData: the rounds, then the predictions,
\* stamped before NOW() - 24 h, which is `horizon` on the logical clock for
\* both statements. A polling cycle lasts less than 24 h, so nothing stamped
\* since the running cycle began is that old. A failing first DELETE returns
\* before the second.
CleanOldData ==
    /\ ~booting
    /\ sweeps < MaxSweeps
    /\ LET limit == IF pc = "idle" THEN clock ELSE cycleStart IN
       \E horizon \in 0..limit, outcome \in {"ok", "fail1", "fail2"} :
         /\ outcome # "ok" => faults < MaxFaults
         /\ faults' = faults + B(outcome # "ok")
         /\ rounds' = IF outcome = "fail1" THEN rounds
                      ELSE CleanOldLotteryResults(rounds, horizon)
         /\ preds' = IF outcome = "ok" THEN CleanOldPredictions(preds, horizon) ELSE preds
    /\ sweeps' = sweeps + 1
    /\ UNCHANGED <<envVars, nextId, clock, cache, notifications, pc, booting, cur,
                   observed, draft, validation, cycleStart, log,
                   issued, restarts, expiries, sideVars>>

\* The process stops between ticks and is started again: the store is kept,
\* the memory cache is new.
Restart ==
    /\ pc = "idle"
    /\ restarts < MaxRestarts
    /\ restarts' = restarts + 1
    /\ pc' = "boot" /\ booting' = TRUE
    /\ cache' = EmptyCache
    /\ UNCHANGED <<envVars, rounds, preds, nextId, clock, notifications, cur,
                   observed, draft, validation, cycleStart, log, issued, sweeps,
                   expiries, faults, sideVars>>

Next ==
    \/ Publish
    \/ NewYear
    \/ Expire
    \/ InitializeHistoricalData
    \/ EnsureLatestPrediction
    \/ Fetch
    \/ FetchFailed
    \/ CheckNew
    \/ SaveRound
    \/ SaveFailed
    \/ CacheRound
    \/ Verify
    \/ CacheVerified
    \/ Generate
    \/ SavePred
    \/ CachePred
    \/ Notify
    \/ CleanOldData
    \/ Restart

Spec == Init /\ [][Next]_vars

\* ------------------------------------------------------------- start after a downtime
\* The process is started on a store that earlier runs have written and the
\* retention sweep has emptied of rounds: up to MaxStartupPreds forecasts for
\* distinct targets (below the source's window, inside it, its newest
\* identifier, the one after), pending or, when the target has been
\* published, verified.  Each round the source holds has a well-formed draw,
\* one with 2 slots or one with a slot above 9.
InitStartup ==
    /\ SideIdle
    /\ year = 0 /\ published = InitialRounds
    /\ \E d \in [1..InitialRounds -> {<<2, 4, 0>>, <<2, 4>>, <<2, 12, 0>>}] :
         source = [i \in 1..InitialRounds |->
                     SourceRound(InitialRounds + 1 - i, 0, d[i], 0)]
    /\ rounds = {}
    /\ \E n \in 0..MaxStartupPreds :
         \E target \in [1..n -> {FirstQihao - 1, FirstQihao + 1,
                                 FirstQihao + InitialRounds - 1,
                                 FirstQihao + InitialRounds}],
            verified \in [1..n -> BOOLEAN] :
           /\ \A i, j \in 1..n : target[i] = target[j] => i = j
           /\ \A i \in 1..n : verified[i] => target[i] < FirstQihao + InitialRounds
           /\ preds = [i \in 1..n |->
                         [id                 |-> i,
                          target_qihao       |-> target[i],
                          predicted_num      |-> <<2, 4, 0>>,
                          predicted_sum      |-> 6,
                          predicted_odd_even |-> "even",
                          predicted_at       |-> 0,
                          actual_num         |-> IF verified[i] THEN <<2, 4, 0>> ELSE NullNum,
                          actual_sum         |-> IF verified[i] THEN 6 ELSE Null,
                          actual_odd_even    |-> IF verified[i] THEN "even" ELSE NullStr,
                          is_correct         |-> IF verified[i] THEN 1 ELSE Null,
                          verified_at        |-> IF verified[i] THEN 0 ELSE Null]]
           /\ nextId = n + 1
    /\ clock = 1
    /\ cache = EmptyCache /\ notifications = <<>>
    /\ pc = "boot" /\ booting = TRUE
    /\ cur = <<>> /\ observed = Null /\ draft = <<>> /\ validation = <<>>
    /\ cycleStart = 0
    /\ log = <<>> /\ issued = <<>> /\ sweeps = 0 /\ restarts = 0 /\ expiries = 0
    /\ faults = 0

\* Start and the ticks that follow, while the source publishes on.
NextStartup ==
    \/ Publish
    \/ InitializeHistoricalData
    \/ EnsureLatestPrediction
    \/ Fetch
    \/ FetchFailed
    \/ CheckNew
    \/ SaveRound
    \/ SaveFailed
    \/ CacheRound
    \/ Verify
    \/ CacheVerified
    \/ Generate
    \/ SavePred
    \/ CachePred
    \/ Notify

SpecStartup == InitStartup /\ [][NextStartup]_vars

\* ------------------------------------------------------------- numbering
\* The process is started on an empty store against a source whose
\* identifiers are numeric strings of one width: the 7 characters of
\* FirstQihao, or 6 characters (the source's newest round is the last
\* identifier of that width). The client takes the identifier as it comes.
InitNumbering ==
    /\ SideIdle
    /\ year = 0 /\ published = InitialRounds
    /\ \E short \in BOOLEAN, d \in [1..InitialRounds -> Draws] :
         source = [i \in 1..InitialRounds |->
                     [SourceRound(InitialRounds + 1 - i, 0, d[i], 0)
                        EXCEPT !.qihao = IF short THEN SevenDigits - i ELSE @]]
    /\ rounds = {} /\ preds = <<>> /\ nextId = 1 /\ clock = 1
    /\ cache = EmptyCache /\ notifications = <<>>
    /\ pc = "boot" /\ booting = TRUE
    /\ cur = <<>> /\ observed = Null /\ draft = <<>> /\ validation = <<>>
    /\ cycleStart = 0
    /\ log = <<>> /\ issued = <<>> /\ sweeps = 0 /\ restarts = 0 /\ expiries = 0
    /\ faults = 0

\* Start, and Start again after the process was stopped, with no tick between.
NextNumbering ==
    \/ InitializeHistoricalData
    \/ EnsureLatestPrediction
    \/ Generate
    \/ SavePred
    \/ CachePred
    \/ Notify
    \/ Restart

SpecNumbering == InitNumbering /\ [][NextNumbering]_vars

\* ------------------------------------------------------------- classification
\* The classification of every pair of draws validateOpenNum accepts: the
\* predicted draw is chosen at the start, Classify chooses the actual one and
\* applies performDetailedValidation.
MaxSlot == 9
Slots3 == [1..3 -> 0..MaxSlot]

InitClassify ==
    /\ InitOrch
    /\ MemoryIdle /\ IsolationIdle /\ LifeIdle /\ ReadIdle /\ StatIdle
    /\ predicted \in Slots3 /\ actual = <<>> /\ verdict = <<>>

Classify ==
    /\ verdict = <<>>
    /\ \E a \in Slots3 :
         /\ actual' = a
         /\ verdict' = << performDetailedValidation(predicted, a) >>
    /\ UNCHANGED <<notClass, predicted>>

NextClassify == Classify

SpecClassify == InitClassify /\ [][NextClassify]_vars

\* ------------------------------------------------------------- MemoryCache
\* encoding/json on a list of numbers: each number becomes its decimal digits,
\* and is read back from them.
Digits(n) == IF n < 10 THEN <<n>> ELSE <<n \div 10, n % 10>>
Number(ds) ==
    LET V[i \in 0..Len(ds)] == IF i = 0 THEN 0 ELSE 10 * V[i - 1] + ds[i]
    IN V[Len(ds)]
JsonMarshal(v) == [i \in 1..Len(v) |-> Digits(v[i])]
JsonUnmarshal(data) == [i \in 1..Len(data) |-> Number(data[i])]

\* IsExpired with the expiry instant itself counted as expired.
IsExpiredAtExpiry(item, now) == now >= item.expires

\* MemoryItem.IsExpired: time.Now().After(item.ExpiresAt)
IsExpired(item, now) == now > item.expires

Present(items) == { k \in MemKeys : items[k] # NoItem }

\* evictOldest picking by expiry instead of creation.
SoonestExpiringKeys(items) ==
    { k \in Present(items) :
        \A j \in Present(items) : items[k].expires <= items[j].expires }

\* The keys evictOldest may pick: Range visits the entries in no fixed order
\* and keeps the first of those created earliest.
OldestKeys(items) ==
    { k \in Present(items) :
        \A j \in Present(items) : items[k].created <= items[j].created }

SetThread(t, r) == mThreads' = [mThreads EXCEPT ![t] = r]

\* time.Now() advances.
MemTick ==
    /\ mNow < MaxTime
    /\ mNow' = mNow + 1
    /\ UNCHANGED <<mItems, mSize, mThreads, mOps, mWritten, notMem>>

\* MemoryCache.Set, one statement on the shared fields per step.
Set(t) ==
    \* Set, memory.go:48-52: the item is built from time.Now() and ttl.
    \/ /\ mThreads[t].pc = "idle" /\ mOps > 0
       /\ \E k \in MemKeys, v \in MemValues, ttl \in 1..MaxTTL :
            SetThread(t, [IdleThread EXCEPT
                !.op = "Set", !.pc = "set_check", !.key = k, !.value = v,
                !.start = mNow, !.ttl = ttl,
                !.item = [value |-> v, expires |-> mNow + ttl, created |-> mNow],
                !.snap = mItems, !.snapSize = mSize])
       /\ mOps' = mOps - 1
       /\ UNCHANGED <<mItems, mSize, mNow, mWritten, notMem>>
    \* Set, memory.go:55: m.size >= maxSize, read without the mutex.
    \/ /\ mThreads[t].pc = "set_check"
       /\ SetThread(t, [mThreads[t] EXCEPT
              !.pc = IF mSize >= MaxSize THEN "evict_scan" ELSE "set_swap"])
       /\ UNCHANGED <<mItems, mSize, mNow, mOps, mWritten, notMem>>
    \* Set, memory.go:60: LoadAndDelete(key).
    \/ /\ mThreads[t].pc = "set_swap"
       /\ LET k == mThreads[t].key IN
          /\ mItems' = [mItems EXCEPT ![k] = NoItem]
          /\ mWritten' = [mWritten EXCEPT ![k] = NoItem]
          /\ SetThread(t, [mThreads[t] EXCEPT
                 !.pc = IF mItems[k] # NoItem THEN "set_store" ELSE "set_inc"])
       /\ UNCHANGED <<mSize, mNow, mOps, notMem>>
    \* Set, memory.go:61-63: size++ under the mutex.
    \/ /\ mThreads[t].pc = "set_inc"
       /\ mSize' = mSize + 1
       /\ SetThread(t, [mThreads[t] EXCEPT !.pc = "set_store"])
       /\ UNCHANGED <<mItems, mNow, mOps, mWritten, notMem>>
    \* Set, memory.go:66: Store(key, item).
    \/ /\ mThreads[t].pc = "set_store"
       /\ LET L == mThreads[t] IN
          /\ mItems' = [mItems EXCEPT ![L.key] = L.item]
          /\ mWritten' = [mWritten EXCEPT
                 ![L.key] = [value |-> L.value, expires |-> L.start + L.ttl]]
          /\ SetThread(t, [L EXCEPT !.pc = "done", !.result = <<"ok">>])
       /\ UNCHANGED <<mSize, mNow, mOps, notMem>>

\* MemoryCache.evictOldest, called by Set when the size test succeeds.
evictOldest(t) ==
    \* evictOldest, memory.go:274-281: the Range over the entries.
    \/ /\ mThreads[t].pc = "evict_scan"
       /\ IF Present(mItems) = {}
          THEN SetThread(t, [mThreads[t] EXCEPT !.pc = "set_swap"])
          ELSE \E k \in OldestKeys(mItems) :
                 SetThread(t, [mThreads[t] EXCEPT !.pc = "evict_delete", !.keys = {k}])
       /\ UNCHANGED <<mItems, mSize, mNow, mOps, mWritten, notMem>>
    \* evictOldest, memory.go:284: LoadAndDelete(oldestKey).
    \/ /\ mThreads[t].pc = "evict_delete"
       /\ LET k == CHOOSE x \in mThreads[t].keys : TRUE IN
          IF mItems[k] # NoItem
          THEN /\ mItems' = [mItems EXCEPT ![k] = NoItem]
               /\ mWritten' = [mWritten EXCEPT ![k] = NoItem]
               /\ SetThread(t, [mThreads[t] EXCEPT !.pc = "evict_dec", !.keys = {}])
          ELSE /\ SetThread(t, [mThreads[t] EXCEPT !.pc = "set_swap", !.keys = {}])
               /\ UNCHANGED <<mItems, mWritten>>
       /\ UNCHANGED <<mSize, mNow, mOps, notMem>>
    \* evictOldest, memory.go:285-287: size-- under the mutex.
    \/ /\ mThreads[t].pc = "evict_dec"
       /\ mSize' = mSize - 1
       /\ SetThread(t, [mThreads[t] EXCEPT !.pc = "set_swap"])
       /\ UNCHANGED <<mItems, mNow, mOps, mWritten, notMem>>

\* MemoryCache.Get, and MemoryCache.Exists, which differs in what it returns.
Get(t) ==
    \* Get (memory.go:72) and Exists (memory.go:143) start.
    \/ /\ mThreads[t].pc = "idle" /\ mOps > 0
       /\ \E k \in MemKeys, o \in {"Get", "Exists"} :
            SetThread(t, [IdleThread EXCEPT !.op = o, !.pc = "get_load", !.key = k])
       /\ mOps' = mOps - 1
       /\ UNCHANGED <<mItems, mSize, mNow, mWritten, notMem>>
    \* Get, memory.go:73-76 (Exists, 144-147): Load(key).
    \/ /\ mThreads[t].pc = "get_load"
       /\ LET L == mThreads[t] IN
          IF mItems[L.key] = NoItem
          THEN SetThread(t, [L EXCEPT !.pc = "done", !.at = mNow,
                                      !.result = IF L.op = "Get" THEN <<"miss">>
                                                 ELSE <<FALSE>>])
          ELSE SetThread(t, [L EXCEPT !.pc = "get_check", !.item = mItems[L.key]])
       /\ UNCHANGED <<mItems, mSize, mNow, mOps, mWritten, notMem>>
    \* Get, memory.go:79 and 88-99 (Exists, 150 and 158): IsExpired, and on a hit
    \* the copy of the value through json.Marshal / json.Unmarshal.
    \/ /\ mThreads[t].pc = "get_check"
       /\ LET L == mThreads[t] IN
          IF IsExpired(L.item, mNow)
          THEN SetThread(t, [L EXCEPT !.pc = "get_delete", !.at = mNow])
          ELSE SetThread(t, [L EXCEPT !.pc = "done", !.at = mNow,
                   !.result = IF L.op = "Get"
                              THEN <<"hit", JsonUnmarshal(JsonMarshal(L.item.value))>>
                              ELSE <<TRUE>>])
       /\ UNCHANGED <<mItems, mSize, mNow, mOps, mWritten, notMem>>
    \* Get, memory.go:80 (Exists, 151): Delete(key), whatever the key now holds.
    \/ /\ mThreads[t].pc = "get_delete"
       /\ mItems' = [mItems EXCEPT ![mThreads[t].key] = NoItem]
       /\ SetThread(t, [mThreads[t] EXCEPT !.pc = "get_dec"])
       /\ UNCHANGED <<mSize, mNow, mOps, mWritten, notMem>>
    \* Get, memory.go:81-84 (Exists, 152-155): size-- under the mutex.
    \/ /\ mThreads[t].pc = "get_dec"
       /\ mSize' = mSize - 1
       /\ LET L == mThreads[t] IN
          SetThread(t, [L EXCEPT !.pc = "done",
                                 !.result = IF L.op = "Get" THEN <<"expired">>
                                            ELSE <<FALSE>>])
       /\ UNCHANGED <<mItems, mNow, mOps, mWritten, notMem>>

\* MemoryCache.SetTTL, and MemoryCache.GetTTL, the operation begun with ttl 0.
SetTTL(t) ==
    \* SetTTL (memory.go:162) and GetTTL (memory.go:177) start.
    \/ /\ mThreads[t].pc = "idle" /\ mOps > 0
       /\ \E k \in MemKeys, ttl \in 0..MaxTTL :
            SetThread(t, [IdleThread EXCEPT
                !.op = IF ttl = 0 THEN "GetTTL" ELSE "SetTTL",
                !.pc = "ttl_load", !.key = k, !.ttl = ttl])
       /\ mOps' = mOps - 1
       /\ UNCHANGED <<mItems, mSize, mNow, mWritten, notMem>>
    \* SetTTL, memory.go:163-166 (GetTTL, 178-188): Load(key); GetTTL answers 0
    \* for an expired entry and the time left for any other.
    \/ /\ mThreads[t].pc = "ttl_load"
       /\ LET L == mThreads[t] IN
          IF mItems[L.key] = NoItem
          THEN SetThread(t, [L EXCEPT !.pc = "done", !.at = mNow,
                                      !.result = <<"not found">>])
          ELSE IF L.op = "GetTTL"
          THEN SetThread(t, [L EXCEPT !.pc = "done", !.at = mNow,
                   !.item = mItems[L.key],
                   !.result = IF IsExpired(mItems[L.key], mNow) THEN <<"ttl", 0>>
                              ELSE <<"ttl", mItems[L.key].expires - mNow>>])
          ELSE SetThread(t, [L EXCEPT !.pc = "ttl_store", !.at = mNow,
                                      !.item = mItems[L.key]])
       /\ UNCHANGED <<mItems, mSize, mNow, mOps, mWritten, notMem>>
    \* SetTTL, memory.go:168-170: the loaded item gets the expiry
    \* time.Now().Add(ttl) and is stored under the key; the expiry of the
    \* record of what was written moves with it.
    \/ /\ mThreads[t].pc = "ttl_store"
       /\ LET L == mThreads[t] IN
          /\ mItems' = [mItems EXCEPT ![L.key] = [L.item EXCEPT !.expires = mNow + L.ttl]]
          /\ mWritten' = IF mWritten[L.key] = NoItem THEN mWritten
                         ELSE [mWritten EXCEPT ![L.key].expires = mNow + L.ttl]
          /\ SetThread(t, [L EXCEPT !.pc = "done", !.result = <<"ok">>])
       /\ UNCHANGED <<mSize, mNow, mOps, notMem>>

\* MemoryCache.Delete
Delete(t) ==
    \* Delete, memory.go:103.
    \/ /\ mThreads[t].pc = "idle" /\ mOps > 0
       /\ \E k \in MemKeys :
            SetThread(t, [IdleThread EXCEPT !.op = "Delete", !.pc = "del_swap", !.key = k])
       /\ mOps' = mOps - 1
       /\ UNCHANGED <<mItems, mSize, mNow, mWritten, notMem>>
    \* Delete, memory.go:104: LoadAndDelete(key).
    \/ /\ mThreads[t].pc = "del_swap"
       /\ LET k == mThreads[t].key IN
          /\ mItems' = [mItems EXCEPT ![k] = NoItem]
          /\ mWritten' = [mWritten EXCEPT ![k] = NoItem]
          /\ SetThread(t, [mThreads[t] EXCEPT
                 !.pc = IF mItems[k] # NoItem THEN "del_dec" ELSE "done",
                 !.result = <<"ok">>])
       /\ UNCHANGED <<mSize, mNow, mOps, notMem>>
    \* Delete, memory.go:105-107: size-- under the mutex.
    \/ /\ mThreads[t].pc = "del_dec"
       /\ mSize' = mSize - 1
       /\ SetThread(t, [mThreads[t] EXCEPT !.pc = "done"])
       /\ UNCHANGED <<mItems, mNow, mOps, mWritten, notMem>>

\* MemoryCache.DeletePattern; its loop and its size update are SweepKeys.
DeletePattern(t) ==
    \* DeletePattern, memory.go:114.
    \/ /\ mThreads[t].pc = "idle" /\ mOps > 0
       /\ \E p \in MemPatterns :
            SetThread(t, [IdleThread EXCEPT
                !.op = "DeletePattern", !.pc = "pat_scan", !.pattern = p,
                !.snap = mItems, !.snapSize = mSize])
       /\ mOps' = mOps - 1
       /\ UNCHANGED <<mItems, mSize, mNow, mWritten, notMem>>
    \* DeletePattern, memory.go:117-123: the Range collecting the matching keys.
    \/ /\ mThreads[t].pc = "pat_scan"
       /\ SetThread(t, [mThreads[t] EXCEPT
              !.pc = "sweep_delete",
              !.keys = { k \in Present(mItems) : matchPattern(mThreads[t].pattern, k) }])
       /\ UNCHANGED <<mItems, mSize, mNow, mOps, mWritten, notMem>>

\* MemoryCache.cleanupExpired, called by the startCleanup goroutine; its loop
\* and its size update are SweepKeys.
cleanupExpired(t) ==
    \* cleanupExpired, memory.go:243, called by the startCleanup goroutine.
    \/ /\ mThreads[t].pc = "idle" /\ mOps > 0
       /\ SetThread(t, [IdleThread EXCEPT !.op = "cleanupExpired", !.pc = "clean_scan"])
       /\ mOps' = mOps - 1
       /\ UNCHANGED <<mItems, mSize, mNow, mWritten, notMem>>
    \* cleanupExpired, memory.go:246-252: the Range collecting the expired keys.
    \/ /\ mThreads[t].pc = "clean_scan"
       /\ SetThread(t, [mThreads[t] EXCEPT
              !.pc = "sweep_delete",
              !.keys = { k \in Present(mItems) : IsExpired(mItems[k], mNow) }])
       /\ UNCHANGED <<mItems, mSize, mNow, mOps, mWritten, notMem>>

\* The loop over the collected keys and the size update that DeletePattern
\* and cleanupExpired share.
SweepKeys(t) ==
    \* DeletePattern, memory.go:126-130, and cleanupExpired, memory.go:255-259:
    \* one turn of the loop, LoadAndDelete of a collected key; after the last key
    \* the test count > 0.
    \/ /\ mThreads[t].pc = "sweep_delete"
       /\ LET L == mThreads[t] IN
          IF L.keys = {}
          THEN /\ SetThread(t, [L EXCEPT !.pc = IF L.count > 0 THEN "sweep_dec" ELSE "done",
                                         !.result = <<"ok">>])
               /\ UNCHANGED <<mItems, mWritten>>
          ELSE \E k \in L.keys :
                 /\ mItems' = [mItems EXCEPT ![k] = NoItem]
                 /\ mWritten' = IF L.op = "DeletePattern"
                                THEN [mWritten EXCEPT ![k] = NoItem]
                                ELSE mWritten
                 /\ SetThread(t, [L EXCEPT
                        !.keys = L.keys \ {k},
                        !.count = IF mItems[k] # NoItem THEN L.count + 1 ELSE L.count])
       /\ UNCHANGED <<mSize, mNow, mOps, notMem>>
    \* DeletePattern, memory.go:132-135, and cleanupExpired, memory.go:261-264:
    \* size -= count under the mutex.
    \/ /\ mThreads[t].pc = "sweep_dec"
       /\ mSize' = mSize - mThreads[t].count
       /\ SetThread(t, [mThreads[t] EXCEPT !.pc = "done"])
       /\ UNCHANGED <<mItems, mNow, mOps, mWritten, notMem>>

\* A Clear that replaces the map and leaves the counter as it is.
ClearKeepingSize(t) ==
    \/ /\ mThreads[t].pc = "idle" /\ mOps > 0
       /\ SetThread(t, [IdleThread EXCEPT !.op = "Clear", !.pc = "clear_map"])
       /\ mOps' = mOps - 1
       /\ UNCHANGED <<mItems, mSize, mNow, mWritten, notMem>>
    \/ /\ mThreads[t].pc = "clear_map"
       /\ mItems' = EmptyItems
       /\ mWritten' = EmptyItems
       /\ SetThread(t, [mThreads[t] EXCEPT !.pc = "done", !.result = <<"ok">>])
       /\ UNCHANGED <<mSize, mNow, mOps, notMem>>

\* MemoryCache.Clear
Clear(t) ==
    \* Clear, memory.go:192.
    \/ /\ mThreads[t].pc = "idle" /\ mOps > 0
       /\ SetThread(t, [IdleThread EXCEPT !.op = "Clear", !.pc = "clear_map"])
       /\ mOps' = mOps - 1
       /\ UNCHANGED <<mItems, mSize, mNow, mWritten, notMem>>
    \* Clear, memory.go:193: m.items = sync.Map{}.
    \/ /\ mThreads[t].pc = "clear_map"
       /\ mItems' = EmptyItems
       /\ mWritten' = EmptyItems
       /\ SetThread(t, [mThreads[t] EXCEPT !.pc = "clear_size"])
       /\ UNCHANGED <<mSize, mNow, mOps, notMem>>
    \* Clear, memory.go:194-196: size = 0 under the mutex.
    \/ /\ mThreads[t].pc = "clear_size"
       /\ mSize' = 0
       /\ SetThread(t, [mThreads[t] EXCEPT !.pc = "done", !.result = <<"ok">>])
       /\ UNCHANGED <<mItems, mNow, mOps, mWritten, notMem>>

\* The operation returns to its caller.
MemReturn(t) ==
    /\ mThreads[t].pc = "done"
    /\ SetThread(t, IdleThread)
    /\ UNCHANGED <<mItems, mSize, mNow, mOps, mWritten, notMem>>

InitMemory ==
    /\ InitOrch
    /\ ClassifyIdle /\ IsolationIdle /\ LifeIdle /\ ReadIdle /\ StatIdle
    /\ mItems = EmptyItems /\ mSize = 0 /\ mNow = 0
    /\ mThreads = [t \in Threads |-> IdleThread]
    /\ mOps = MaxOps /\ mWritten = EmptyItems

\* Callers take turns: a goroutine moves only while no other is inside an
\* operation.
Alone(t) == \A u \in Threads \ {t} : mThreads[u].pc = "idle"

NextMemorySeq ==
    \/ MemTick
    \/ \E t \in Threads : Alone(t) /\ Set(t)
    \/ \E t \in Threads : Alone(t) /\ evictOldest(t)
    \/ \E t \in Threads : Alone(t) /\ Get(t)
    \/ \E t \in Threads : Alone(t) /\ SetTTL(t)
    \/ \E t \in Threads : Alone(t) /\ Delete(t)
    \/ \E t \in Threads : Alone(t) /\ DeletePattern(t)
    \/ \E t \in Threads : Alone(t) /\ cleanupExpired(t)
    \/ \E t \in Threads : Alone(t) /\ SweepKeys(t)
    \/ \E t \in Threads : Alone(t) /\ Clear(t)
    \/ \E t \in Threads : Alone(t) /\ MemReturn(t)

SpecMemorySeq == InitMemory /\ [][NextMemorySeq]_vars

\* A cache two Sets have filled at instant 0 with ttl 1, as callers taking
\* turns leave it.
WarmItems ==
    [k \in MemKeys |->
        IF k \in {KeyLatest, KeyLast3}
        THEN [value |-> <<7>>, expires |-> 1, created |-> 0]
        ELSE NoItem]

InitMemoryWarm ==
    /\ InitOrch
    /\ ClassifyIdle /\ IsolationIdle /\ LifeIdle /\ ReadIdle /\ StatIdle
    /\ mItems = WarmItems /\ mSize = Cardinality(Present(WarmItems)) /\ mNow = 0
    /\ mThreads = [t \in Threads |-> IdleThread]
    /\ mOps = MaxConcurrentOps
    /\ mWritten = [k \in MemKeys |->
                      IF WarmItems[k] = NoItem THEN NoItem
                      ELSE [value |-> WarmItems[k].value, expires |-> WarmItems[k].expires]]

\* Goroutines interleave statement by statement.
NextMemory ==
    \/ MemTick
    \/ \E t \in Threads : Set(t)
    \/ \E t \in Threads : evictOldest(t)
    \/ \E t \in Threads : Get(t)
    \/ \E t \in Threads : Delete(t)
    \/ \E t \in Threads : DeletePattern(t)
    \/ \E t \in Threads : cleanupExpired(t)
    \/ \E t \in Threads : SweepKeys(t)
    \/ \E t \in Threads : MemReturn(t)

SpecMemory == InitMemoryWarm /\ [][NextMemory]_vars

\* ------------------------------------------------------------- claims
\* The position of a step in the log of the running cycle (0: not taken).
Pos(label) ==
    IF \E i \in DOMAIN log : log[i] = label
    THEN CHOOSE i \in DOMAIN log : log[i] = label /\ \A j \in 1..(i - 1) : log[j] # label
    ELSE 0

\* The rows of predictions that target qihao and are not verified.
Pending(qihao) ==
    { i \in DOMAIN preds : preds[i].target_qihao = qihao /\ ~IsVerified(preds[i]) }

\* The largest identifier among the stored rounds.
NewestQihao == CHOOSE q \in { x.qihao : x \in rounds } : \A x \in rounds : x.qihao <= q

\* C1: a tick whose fetched round is already stored ends at the novelty test
\* and writes nothing: the rounds, the predictions, the cache and the
\* notifications are what they were when the tick began.
C1_NonNovelTickHasNoEffect ==
    [][ /\ (pc = "idle" /\ pc' = "check")
           => UNCHANGED <<rounds, preds, nextId, cache, notifications, issued>>
        /\ (pc = "check" /\ pc' # "check" /\ ~CheckNewQihao(rounds, cur[1].qihao))
           => (pc' = "idle" /\ UNCHANGED <<rounds, preds, nextId, cache,
                                           notifications, issued>>) ]_vars

\* A tick has fetched a round that is stored, forecast and notified already.
C1_Witness ==
    /\ pc = "check"
    /\ ~CheckNewQihao(rounds, cur[1].qihao)
    /\ \E i \in DOMAIN issued : issued[i].observed = cur[1].qihao
    /\ notifications # <<>>

\* C2: in a cycle that observed a novel round R, the verification of the
\* forecast targeting R is attempted before the new forecast is persisted,
\* and once its outcome has been written no other forecast targeting R is
\* pending when the new one is in the store.
C2_VerifyBeforeNewForecast ==
    (cur # <<>> /\ Pos("persist_forecast") > 0) =>
        /\ Pos("verify") > 0
        /\ Pos("verify") < Pos("persist_forecast")
        /\ Pos("outcome_written") > 0 =>
             /\ Pos("outcome_written") < Pos("persist_forecast")
             /\ \A i \in Pending(cur[1].qihao) : preds[i].id = draft[1].id

\* A cycle has written the outcome of the forecast for its round and then
\* persisted the next forecast.
C2_Witness ==
    /\ cur # <<>>
    /\ Pos("outcome_written") > 0
    /\ Pos("persist_forecast") > 0
    /\ \E i \in DOMAIN preds : preds[i].target_qihao = cur[1].qihao /\ IsVerified(preds[i])

\* The number of positions at which the classified draws agree.
Agreements == Cardinality({ i \in 1..3 : predicted[i] = actual[i] })

\* C8: performDetailedValidation yields "exact" and correct exactly when the
\* 3 positions agree; otherwise 2 agreements give "partial" and correct, 1
\* gives "partial" and incorrect, 0 gives "none" and incorrect.
C8_Classification ==
    verdict # <<>> =>
        LET v == verdict[1] IN
        /\ (v.MatchType = "exact") = (Agreements = 3)
        /\ Agreements = 3 => v.IsCorrect
        /\ Agreements = 2 => (v.MatchType = "partial" /\ v.IsCorrect)
        /\ Agreements = 1 => (v.MatchType = "partial" /\ ~v.IsCorrect)
        /\ Agreements = 0 => (v.MatchType = "none" /\ ~v.IsCorrect)

\* A pair of draws that agree at exactly 2 positions has been classified.
C8_Witness ==
    /\ verdict # <<>>
    /\ Agreements = 2
    /\ verdict[1].MatchType = "partial" /\ verdict[1].IsCorrect

\* C3: whenever no cycle is in progress the store holds exactly one
\* unverified forecast whose target is the newest stored identifier plus one.
C3_ExactlyOnePendingForecast ==
    (pc = "idle" /\ rounds # {}) => Cardinality(Pending(NewestQihao + 1)) = 1

\* C4: at most one forecast is ever generated and persisted in response to
\* observing a round identifier.
C4_AtMostOneForecastPerRound ==
    \A i \in DOMAIN issued : \A j \in DOMAIN issued :
        issued[i].observed = issued[j].observed => i = j

\* C5: the forecast persisted by a cycle that observed the novel round R
\* targets R + 1.
C5_TargetIsObservedPlusOne ==
    (cur # <<>> /\ Pos("persist_forecast") > 0) =>
        draft[1].target_qihao = cur[1].qihao + 1

\* The place of a step in the order the cycle is said to follow.
Rank(label) ==
    CASE label = "verify"           -> 1
      [] label = "outcome_written"  -> 2
      [] label = "cache_verified"   -> 3
      [] label = "persist_round"    -> 4
      [] label = "cache_round"      -> 5
      [] label = "generate"         -> 6
      [] label = "persist_forecast" -> 7
      [] label = "cache_forecast"   -> 8
      [] label = "notify"           -> 9

\* C6: within a cycle that observes a novel round the steps are taken in the
\* order verify, persist the round, read-side cache sync, generate, persist
\* the forecast, write-side cache sync, notify: the verification comes
\* before the round is upserted.
C6_VerifyFirstOrder ==
    cur # <<>> =>
        /\ \A i \in DOMAIN log : \A j \in DOMAIN log :
               i < j => Rank(log[i]) < Rank(log[j])
        /\ Pos("persist_round") > 0 => Pos("verify") > 0

\* C7: a verified forecast keeps its actual draw, sum, parity, correctness
\* flag and verification timestamp for as long as it is stored.
C7_VerificationIsOneWay ==
    [][ \A i \in DOMAIN preds : \A j \in DOMAIN preds' :
            (IsVerified(preds[i]) /\ preds'[j].id = preds[i].id)
                => preds'[j] = preds[i] ]_vars

\* C9: the correctness flag returned by the validator and the one persisted
\* on a forecast are set exactly when at least 2 of the 3 positions agree.
C9_FlagIsMatchCount ==
    /\ \A i \in DOMAIN preds :
           IsVerified(preds[i]) =>
               ((preds[i].is_correct = 1)
                  <=> (Len(getMatchedPositions(preds[i].predicted_num,
                                               preds[i].actual_num)) >= 2))
    /\ (validation # <<>> /\ cur # <<>>) =>
           \A i \in DOMAIN preds :
               (preds[i].target_qihao = cur[1].qihao /\ IsVerified(preds[i])) =>
                   (validation[1].IsCorrect
                      <=> (Len(getMatchedPositions(preds[i].predicted_num,
                                                   cur[1].opennum)) >= 2))

\* C10: every stored round has a sum equal to the sum of its three slots.
C10_StoredSumIsSlotSum ==
    \A x \in rounds : x.sum_value = CalculateSum(x.opennum)

\* ------------------------------------------------------------- read-through Get
\* CacheManager.Get of one list-valued key ("lottery:last3"), by reference:
\* a Go slice is its backing array, which an assignment shares and a JSON
\* round trip allocates anew.

\* The list getFromDatabase returns, in a backing array of its own.
StoredList == <<12, 3>>

\* CacheManager.Get: a hit is MemoryCache.Get's JSON copy; on a miss the list
\* from getFromDatabase is stored by MemoryCache.Set and assigned to *dest by
\* copyData.
ReadThroughGet(c) ==
    /\ iNext <= MaxRefs
    /\ iNext' = iNext + 1
    /\ iHeld' = [iHeld EXCEPT ![c] = iNext]
    /\ IF iEntry # 0
       THEN /\ iHeap' = [iHeap EXCEPT ![iNext] = JsonUnmarshal(JsonMarshal(iHeap[iEntry]))]
            /\ UNCHANGED iEntry
       ELSE /\ iHeap' = [iHeap EXCEPT ![iNext] = StoredList]
            /\ iEntry' = iNext
    /\ UNCHANGED notIso

\* A caller writes an element of the list it was handed.
CallerMutates(c) ==
    /\ iHeld[c] # 0
    /\ \E i \in 1..Len(iHeap[iHeld[c]]), n \in {3, 7} :
         /\ iHeap[iHeld[c]][i] # n
         /\ iHeap' = [iHeap EXCEPT ![iHeld[c]][i] = n]
    /\ UNCHANGED <<iEntry, iHeld, iNext, notIso>>

\* The entry expires or is invalidated (MemoryCache.Get's expired path,
\* DeletePattern).
EntryRemoved ==
    /\ iEntry # 0
    /\ iEntry' = 0
    /\ UNCHANGED <<iHeap, iHeld, iNext, notIso>>

InitIsolation == InitOrch /\ ClassifyIdle /\ MemoryIdle /\ IsolationIdle /\ LifeIdle /\ ReadIdle /\ StatIdle

NextIsolation ==
    \/ \E c \in Threads : ReadThroughGet(c)
    \/ \E c \in Threads : CallerMutates(c)
    \/ EntryRemoved

SpecIsolation == InitIsolation /\ [][NextIsolation]_vars

\* ------------------------------------------------------------- loops and shutdown

\* The statements of processDataUpdate, in order: FetchAndValidateLatestData,
\* CheckNewQihao, SaveLotteryResult, OnNewLotteryData,
\* verifyPreviousPrediction, generateNewPrediction.
CycleSteps == <<"fetch", "check", "save", "cache", "verify", "generate">>

\* The statements processDataUpdate can return from: a failed fetch, a failed
\* check or a round that is not new, a failed save, and the end.
ReturnSteps == {"fetch", "check", "save", "generate"}

\* A loop that takes a tick whenever it is running: the cycle started in a
\* goroutine of its own.
AtSelectOrBusy(loopPc) == loopPc # "exited"

\* A loop takes a case of its select only when it is at the select.
AtSelect(loopPc) == loopPc = "select"

\* Stop without wg.Wait.
wgWaitSkipped(monitor, cleanup) == TRUE

\* wg.Wait returns when both loops have run their deferred wg.Done.
wgWait(monitor, cleanup) == monitor = "exited" /\ cleanup = "exited"

\* time.Ticker: the channel holds at most one tick; a stopped ticker (the
\* loop's deferred ticker.Stop) sends none.
TickerFires ==
    \/ /\ monitorPc # "exited" /\ ~tickPending
       /\ tickPending' = TRUE
       /\ UNCHANGED <<monitorPc, cycles, cleanupPc, cleanTickPending, stopPc,
                      stopMidCycle, notLife>>
    \/ /\ cleanupPc # "exited" /\ ~cleanTickPending
       /\ cleanTickPending' = TRUE
       /\ UNCHANGED <<monitorPc, cycles, tickPending, cleanupPc, stopPc,
                      stopMidCycle, notLife>>

\* dataMonitorLoop's select: a tick calls processDataUpdate and waits for it;
\* the closed stopChannel returns.  With both ready, select takes either.
dataMonitorLoop ==
    /\ AtSelect(monitorPc)
    /\ \/ /\ tickPending
          /\ tickPending' = FALSE
          /\ monitorPc' = "cycle"
          /\ cycles' = Append(cycles, 1)
       \/ /\ stopPc # "running"
          /\ monitorPc' = "exited"
          /\ UNCHANGED <<tickPending, cycles>>
    /\ UNCHANGED <<cleanupPc, cleanTickPending, stopPc, stopMidCycle, notLife>>

\* One statement of a running processDataUpdate: it goes on to the next
\* statement, or returns to the loop.
processDataUpdate ==
    \E i \in 1..Len(cycles) :
      /\ \/ /\ cycles[i] < Len(CycleSteps)
            /\ cycles' = [cycles EXCEPT ![i] = @ + 1]
            /\ UNCHANGED monitorPc
         \/ /\ CycleSteps[cycles[i]] \in ReturnSteps
            /\ cycles' = [j \in 1..(Len(cycles) - 1) |->
                             IF j < i THEN cycles[j] ELSE cycles[j + 1]]
            /\ monitorPc' = IF monitorPc = "cycle" THEN "select" ELSE monitorPc
      /\ UNCHANGED <<tickPending, cleanupPc, cleanTickPending, stopPc,
                     stopMidCycle, notLife>>

\* dataCleanupLoop's select: a tick runs CleanOldData; the closed stopChannel
\* returns.
dataCleanupLoop ==
    /\ \/ /\ AtSelect(cleanupPc) /\ cleanTickPending
          /\ cleanTickPending' = FALSE
          /\ cleanupPc' = "clean"
       \/ /\ cleanupPc = "clean"
          /\ cleanupPc' = "select"
          /\ UNCHANGED cleanTickPending
       \/ /\ AtSelect(cleanupPc) /\ stopPc # "running"
          /\ cleanupPc' = "exited"
          /\ UNCHANGED cleanTickPending
    /\ UNCHANGED <<monitorPc, cycles, tickPending, stopPc, stopMidCycle, notLife>>

\* App.Stop, statement by statement: close(stopChannel), telegramBot.Stop,
\* wg.Wait, cacheManager.Close, mysql.Close.
Stop ==
    /\ \/ /\ stopPc = "running"
          /\ stopPc' = "signalled"
          /\ stopMidCycle' = (cycles # <<>>)
       \/ /\ stopPc = "signalled"
          /\ stopPc' = "botStopped"
          /\ UNCHANGED stopMidCycle
       \/ /\ stopPc = "botStopped"
          /\ wgWait(monitorPc, cleanupPc)
          /\ stopPc' = "waited"
          /\ UNCHANGED stopMidCycle
       \/ /\ stopPc = "waited"
          /\ stopPc' = "cacheClosed"
          /\ UNCHANGED stopMidCycle
       \/ /\ stopPc = "cacheClosed"
          /\ stopPc' = "storeClosed"
          /\ UNCHANGED stopMidCycle
    /\ UNCHANGED <<monitorPc, cycles, tickPending, cleanupPc, cleanTickPending, notLife>>

NextLife ==
    \/ TickerFires
    \/ dataMonitorLoop
    \/ processDataUpdate
    \/ dataCleanupLoop
    \/ Stop

SpecLife == Init /\ [][NextLife]_vars

\* ------------------------------------------------------------- readers and the cycle

\* What a cycle that persists a new round does to the store and the cache, in
\* order: SaveLotteryResult, OnNewLotteryData; UpdatePredictionResult,
\* OnPredictionVerified; SavePrediction, OnPredictionGenerated.
CycleStatements ==
    << [do |-> "write", key |-> KeyLatest, patterns |-> {}],
       [do |-> "invalidate", key |-> <<>>,
        patterns |-> {<<"lottery", "*">>, <<"prediction", "*">>}],
       [do |-> "set", key |-> KeyLatest, patterns |-> {}],
       [do |-> "write", key |-> KeyPredHistory10, patterns |-> {}],
       [do |-> "invalidate", key |-> <<>>,
        patterns |-> {<<"stats", "*">>, <<"prediction", "history", "*">>}],
       [do |-> "set", key |-> KeyPredHistory10, patterns |-> {}],
       [do |-> "write", key |-> KeyPredHistory10, patterns |-> {}],
       [do |-> "invalidate", key |-> <<>>,
        patterns |-> {<<"prediction", "*">>, <<"stats", "*">>}],
       [do |-> "set", key |-> KeyPredHistory10, patterns |-> {}] >>

\* The next statement of the cycle; rCycle counts the statements done.
CycleStatement ==
    /\ rCycle > 0 \/ rCycles < MaxReadCycles
    /\ LET st == CycleStatements[rCycle + 1] IN
       /\ rStore' = IF st.do = "write" THEN [rStore EXCEPT ![st.key] = @ + 1] ELSE rStore
       /\ rCache' = CASE st.do = "invalidate" ->
                           [k \in ReadKeys |->
                              IF \E pat \in st.patterns : matchPattern(pat, k)
                              THEN 0 ELSE rCache[k]]
                      [] st.do = "set" -> [rCache EXCEPT ![st.key] = rStore[st.key]]
                      [] OTHER -> rCache
    /\ rCycle' = IF rCycle + 1 = Len(CycleStatements) THEN 0 ELSE rCycle + 1
    /\ rCycles' = IF rCycle = 0 THEN rCycles + 1 ELSE rCycles
    /\ UNCHANGED <<rReaders, notRead>>

\* CacheManager.Get as GetLatestLotteryData and GetPredictionHistory call it,
\* statement by statement: memory.Get; on a miss getFromDatabase, then
\* memory.Set of what was read, which is also what the caller gets.
ManagerGet(t) ==
    LET r == rReaders[t] IN
    /\ \/ /\ r.pc \in {"idle", "done"}
          /\ \E k \in ReadKeys :
               rReaders' = [rReaders EXCEPT ![t] =
                   [pc |-> "get", key |-> k, data |-> 0, begun |-> rStore[k],
                    quiet |-> (rCycle = 0)]]
          /\ UNCHANGED rCache
       \/ /\ r.pc = "get"
          /\ rReaders' = [rReaders EXCEPT ![t] =
                 IF rCache[r.key] # 0
                 THEN [r EXCEPT !.pc = "done", !.data = rCache[r.key]]
                 ELSE [r EXCEPT !.pc = "database"]]
          /\ UNCHANGED rCache
       \/ /\ r.pc = "database"
          /\ rReaders' = [rReaders EXCEPT ![t] =
                 [r EXCEPT !.pc = "backfill", !.data = rStore[r.key]]]
          /\ UNCHANGED rCache
       \/ /\ r.pc = "backfill"
          /\ rCache' = [rCache EXCEPT ![r.key] = r.data]
          /\ rReaders' = [rReaders EXCEPT ![t] = [r EXCEPT !.pc = "done"]]
    /\ UNCHANGED <<rStore, rCycle, rCycles, notRead>>

\* An entry reaches its expiry: the next memory.Get of the key misses.
EntryExpires ==
    /\ \E k \in ReadKeys :
         /\ rCache[k] # 0
         /\ rCache' = [rCache EXCEPT ![k] = 0]
    /\ UNCHANGED <<rStore, rReaders, rCycle, rCycles, notRead>>

NextRead ==
    \/ CycleStatement
    \/ \E t \in Threads : ManagerGet(t)
    \/ EntryExpires

SpecRead == Init /\ [][NextRead]_vars

\* ------------------------------------------------------------- statistics

\* The pending rows of the table.
PendingRows == { i \in DOMAIN sRows : sRows[i].is_correct = Null }

\* A forecast is saved: a row with is_correct NULL.
AddPending ==
    /\ Cardinality(PendingRows) < MaxPending
    /\ LET free == (1..(Len(sRows) + 1)) \ { sRows[i].id : i \in DOMAIN sRows }
           id == CHOOSE x \in free : \A y \in free : x <= y
       IN sRows' = Append(sRows, [id |-> id, is_correct |-> Null])
    /\ UNCHANGED <<sStats, notStat>>

\* A pending row is deleted (CleanOldPredictions).
RemovePending ==
    /\ \E i \in PendingRows :
         sRows' = [j \in 1..(Len(sRows) - 1) |-> IF j < i THEN sRows[j] ELSE sRows[j + 1]]
    /\ UNCHANGED <<sStats, notStat>>

\* StatisticsCalculator.CalculateStatistics / the bot's statistics view call
\* MySQLDB.GetPredictionStats.
ReportStats ==
    /\ sStats' = GetPredictionStats(sRows)
    /\ UNCHANGED <<sRows, notStat>>

\* The table holds any verified forecasts, correct or not, none pending.
InitStats ==
    /\ InitOrch
    /\ ClassifyIdle /\ MemoryIdle /\ IsolationIdle /\ LifeIdle /\ ReadIdle
    /\ \E n \in 0..MaxVerified : \E c \in [1..n -> {0, 1}] :
         sRows = [i \in 1..n |-> [id |-> i, is_correct |-> c[i]]]
    /\ sStats = <<>>

NextStats ==
    \/ AddPending
    \/ RemovePending
    \/ ReportStats

SpecStats == InitStats /\ [][NextStats]_vars

\* ------------------------------------------------------------- trend analysis
\* A moving average that leaves out the first window.
calculateMovingAverageSkippingFirst(accuracy, window) ==
    IF Len(accuracy) < window THEN <<>>
    ELSE [n \in 1..(Len(accuracy) - window) |->
            (Cardinality({ j \in (n + 1)..(n + window) : accuracy[j] }) * 100) \div window]

\* StatisticsCalculator.calculateMovingAverage: for i = window-1 .. len-1 the
\* share of true values among accuracy[i-window+1 .. i], times 100 (indices
\* from 0 in the source, from 1 here). float64(correct)/float64(window)*100
\* is the whole number correct * 100 / window whenever window divides
\* correct * 100, as the window of 10 does, up to the rounding of the
\* division, which is far below the distance of 10 between two values.
calculateMovingAverage(accuracy, window) ==
    IF Len(accuracy) < window THEN <<>>
    ELSE [n \in 1..(Len(accuracy) - window + 1) |->
            (Cardinality({ j \in n..(n + window - 1) : accuracy[j] }) * 100) \div window]

\* StatisticsCalculator.analyzeTrendDirection
analyzeTrendDirection(movingAverage) ==
    IF Len(movingAverage) < 2 THEN "insufficient_data"
    ELSE LET recent == movingAverage[Len(movingAverage)]
             previous == movingAverage[Len(movingAverage) - 1]
         IN IF recent > previous + 1 THEN "improving"
            ELSE IF recent < previous - 1 THEN "declining"
            ELSE "stable"

\* StatisticsCalculator.GetTrendAnalysis: the newest TrendLimit forecasts,
\* newest first, the outcomes of the verified ones, their moving average
\* and its direction.
GetTrendAnalysis ==
    /\ sStats = <<>>
    /\ LET n == Min(TrendLimit, Len(sRows))
           predictions == [i \in 1..n |-> sRows[Len(sRows) + 1 - i]]
           verified == SelectSeq(predictions, LAMBDA p : p.is_correct # Null)
           recentAccuracy == [i \in 1..Len(verified) |-> verified[i].is_correct = 1]
           movingAverage == calculateMovingAverage(recentAccuracy, TrendWindow)
       IN sStats' = [moving_average  |-> movingAverage,
                     trend_direction |-> analyzeTrendDirection(movingAverage)]
    /\ UNCHANGED <<sRows, notStat>>

\* The table holds any verified forecasts, correct or not.
InitTrend ==
    /\ InitOrch
    /\ ClassifyIdle /\ MemoryIdle /\ IsolationIdle /\ LifeIdle /\ ReadIdle
    /\ \E n \in 0..MaxTrendRows : \E c \in [1..n -> {0, 1}] :
         sRows = [i \in 1..n |-> [id |-> i, is_correct |-> c[i]]]
    /\ sStats = <<>>

SpecTrend == InitTrend /\ [][GetTrendAnalysis]_vars

\* ------------------------------------------------------------- claims C11..C20
Finished(t, op) == mThreads[t].pc = "done" /\ mThreads[t].op = op

\* C11: with callers taking turns, a Get of a key whose latest Set has not
\* been replaced by a Set, Delete, DeletePattern or eviction returns that
\* Set's value at every instant up to start + ttl of the Set, and a miss at
\* every later instant.
C11_GetReturnsSetValueUntilExpiry ==
    \A t \in Threads :
        (Finished(t, "Get") /\ mWritten[mThreads[t].key] # NoItem) =>
            LET L == mThreads[t]
                w == mWritten[L.key]
            IN IF L.at <= w.expires
               THEN L.result = <<"hit", w.value>>
               ELSE L.result \in {<<"miss">>, <<"expired">>}

\* A Get at the expiry instant itself that returned the two-number value.
C11_Witness ==
    \E t \in Threads :
        /\ Finished(t, "Get") /\ mWritten[mThreads[t].key] # NoItem
        /\ mThreads[t].at = mWritten[mThreads[t].key].expires
        /\ mThreads[t].result = <<"hit", <<12, 3>> >>

\* C12: with callers taking turns, a Set of an absent key into a cache that
\* holds maxSize entries removes exactly one of them, one created no later
\* than any other, leaves the others as they were, and the cache holds
\* maxSize entries again, the new key among them.
C12_EvictsOneOldest ==
    \A t \in Threads :
        LET L == mThreads[t] IN
        (Finished(t, "Set") /\ Cardinality(Present(L.snap)) = MaxSize
                            /\ L.snap[L.key] = NoItem) =>
            LET removed == { k \in Present(L.snap) : mItems[k] = NoItem } IN
            /\ Cardinality(removed) = 1
            /\ \A k \in removed : \A j \in Present(L.snap) :
                   L.snap[k].created <= L.snap[j].created
            /\ \A k \in Present(L.snap) \ removed : mItems[k] = L.snap[k]
            /\ Cardinality(Present(mItems)) = MaxSize
            /\ mItems[L.key] # NoItem

\* A Set that evicted the older of two entries although it expires no sooner.
C12_Witness ==
    \E t \in Threads :
        LET L == mThreads[t] IN
        /\ Finished(t, "Set") /\ Cardinality(Present(L.snap)) = MaxSize
        /\ L.snap[L.key] = NoItem
        /\ \E k, j \in Present(L.snap) :
             /\ mItems[k] = NoItem /\ mItems[j] # NoItem
             /\ L.snap[k].created < L.snap[j].created
             /\ L.snap[k].expires >= L.snap[j].expires

\* The matching rule in the words of the claim.
StartsWith(key, prefix) ==
    /\ Len(key) >= Len(prefix)
    /\ \A i \in 1..Len(prefix) : key[i] = prefix[i]
Matches(p, key) ==
    IF p = <<"*">> THEN TRUE
    ELSE IF p # <<>> /\ p[Len(p)] = "*" THEN StartsWith(key, SubSeq(p, 1, Len(p) - 1))
    ELSE key = p

\* C13: with callers taking turns, DeletePattern(p) removes exactly the
\* entries whose key matches p ("*": every key; ending in "*": the keys that
\* start with the rest; otherwise the equal key), leaves every other entry
\* unchanged, and lowers the size counter by the number of entries removed.
C13_DeletePatternRemovesExactlyMatches ==
    \A t \in Threads :
        LET L == mThreads[t] IN
        Finished(t, "DeletePattern") =>
            /\ mItems = [k \in MemKeys |->
                           IF Matches(L.pattern, k) THEN NoItem ELSE L.snap[k]]
            /\ mSize = L.snapSize
                       - Cardinality({ k \in Present(L.snap) : Matches(L.pattern, k) })

\* A DeletePattern("lottery:*") on a cache holding a lottery key and a
\* prediction key.
C13_Witness ==
    \E t \in Threads :
        LET L == mThreads[t] IN
        /\ Finished(t, "DeletePattern") /\ L.pattern = <<"lottery", "*">>
        /\ L.snap[KeyLatest] # NoItem /\ L.snap[KeyPredLatest] # NoItem
        /\ mItems[KeyPredLatest] # NoItem

\* C14: a caller writing into the value Get handed it changes neither the
\* value the cache entry holds (what a later Get returns) nor the value
\* handed to another caller.
C14_ReturnedValuesAreIndependent ==
    [][ (iHeap' # iHeap /\ UNCHANGED <<iEntry, iHeld, iNext>>) =>
          /\ iEntry # 0 => iHeap'[iEntry] = iHeap[iEntry]
          /\ \A c, d \in Threads :
               (c # d /\ iHeld[c] # 0 /\ iHeld[d] # 0
                      /\ iHeap'[iHeld[c]] # iHeap[iHeld[c]])
                   => iHeap'[iHeld[d]] = iHeap[iHeld[d]] ]_vars

\* C15: under any interleaving of the goroutines, whenever no operation is
\* in flight the size counter equals the number of entries in the map and is
\* not negative.
C15_SizeCounterMatchesEntries ==
    (\A t \in Threads : mThreads[t].pc \in {"idle", "done"}) =>
        /\ mSize = Cardinality(Present(mItems))
        /\ mSize >= 0

\* C16: two executions of processDataUpdate are never in progress at once, and
\* a tick that arrives while a cycle runs starts no cycle until that one has
\* returned: a cycle starts only when none is running.
C16_CyclesNeverOverlap ==
    /\ [](Len(cycles) <= 1)
    /\ [][Len(cycles') > Len(cycles) => cycles = <<>>]_vars

\* A tick is waiting in the ticker's channel while a cycle is past its fetch.
C16_Witness ==
    /\ tickPending /\ monitorPc = "cycle"
    /\ Len(cycles) = 1 /\ cycles[1] > 1

\* C17: after Stop's signal the polling loop returns only between cycles, so
\* a cycle in flight runs to its return; the cache manager and the store are
\* closed only once both loops have exited; and no statement of a cycle (nor
\* of the retention sweep) runs once the cache manager or the store is closed.
C17_ShutdownWaitsForCycle ==
    /\ [](stopPc \in {"waited", "cacheClosed", "storeClosed"} =>
            /\ monitorPc = "exited" /\ cleanupPc = "exited"
            /\ cycles = <<>>)
    /\ [][ /\ (monitorPc' = "exited" /\ monitorPc # "exited") =>
              (cycles = <<>> /\ cycles' = <<>>)
           /\ (cycles' # cycles \/ cleanupPc' # cleanupPc) =>
              stopPc \notin {"cacheClosed", "storeClosed"} ]_vars

\* Stop sent its signal while a cycle was running and has closed the store.
C17_Witness == stopMidCycle /\ stopPc = "storeClosed"

\* C18: when every one of the RetryCount+1 attempts of a cycle's fetch fails,
\* the cycle takes the error branch and returns without a further step, and
\* neither step changes the rounds, the predictions, the cache or the
\* notifications.
C18_FailedFetchHasNoEffect ==
    [][ /\ (pc # "failed" /\ pc' = "failed")
           => (pc = "idle" /\ UNCHANGED <<rounds, preds, nextId, cache, notifications>>)
        /\ (pc = "failed" /\ pc' # "failed")
           => (pc' = "idle" /\ UNCHANGED <<rounds, preds, nextId, cache, notifications>>) ]_vars

\* Every attempt of the fetch has failed in a cycle that had rounds,
\* forecasts, cache entries and notifications to lose.
C18_Witness ==
    /\ pc = "failed" /\ faults > 0
    /\ rounds # {} /\ preds # <<>> /\ notifications # <<>>
    /\ \E k \in CacheKeys : cache[k] # <<>>

\* C19: a read of the latest round or of the forecast history that begins
\* when no cycle is running returns the version the store holds, as long as
\* the store has not been written since the read began.
C19_ReadsReturnStoreValues ==
    \A t \in Threads :
       LET r == rReaders[t] IN
       (r.pc = "done" /\ r.quiet /\ r.begun = rStore[r.key]) => r.data = rStore[r.key]

\* C20: with N verified forecasts of which C are correct, and whatever
\* forecasts are pending, GetPredictionStats reports total N, correct C and
\* the accuracy C/N rounded to 2 decimal places (in hundredths, as the model
\* holds the rate: the nearest integer to 100 C / N).
C20_AccuracyIsCorrectOverVerified ==
    LET N == Cardinality({ i \in DOMAIN sRows : sRows[i].is_correct # Null })
        C == Cardinality({ i \in DOMAIN sRows : sRows[i].is_correct = 1 })
    IN sStats # <<>> =>
         /\ sStats.ok
         /\ sStats.stats[1].total_predictions = N
         /\ sStats.stats[1].correct_predictions = C
         /\ N > 0 => sStats.stats[1].accuracy_rate = (2 * C * 100 + N) \div (2 * N)

\* ------------------------------------------------------------- claims C21..C30

C22_FailedStartStartsNoLoop ==
    [][ (pc = "boot" /\ pc' # "ensure") => (booting' /\ pc' # "idle") ]_vars

\* C23: when a polling cycle that observed a novel round R completes (its last
\* step, the notification, returns), the store holds no unverified forecast
\* whose target is below R, also when R is more than one identifier ahead of
\* the newest stored round.
C23_CompletedCycleLeavesNoStalePending ==
    [][ (pc = "notify" /\ ~booting /\ pc' = "idle") =>
          \A j \in DOMAIN preds' :
             ~IsVerified(preds'[j]) => ~(preds'[j].target_qihao < observed) ]_vars

\* C24: in every state of the store, a target that has not been observed as
\* a round (the source has not published it and no stored round bears it) has
\* at most one unverified forecast.
C24_OnePendingPerUnobservedTarget ==
    \A i \in DOMAIN preds : \A j \in DOMAIN preds :
        ( /\ ~IsVerified(preds[i]) /\ ~IsVerified(preds[j])
          /\ preds[i].target_qihao = preds[j].target_qihao
          /\ \A k \in DOMAIN source : source[k].qihao # preds[i].target_qihao
          /\ \A x \in rounds : x.qihao # preds[i].target_qihao )
        => i = j

\* C25: with callers taking turns, an operation that finds an entry at an
\* instant at or after the entry's expiry behaves as if the key were absent:
\* Get misses, Exists answers false, GetTTL and SetTTL report that the key is
\* not found, and SetTTL leaves the entry invisible.
C25_ExpiredEntriesAreAbsent ==
    \A t \in Threads :
        LET L == mThreads[t] IN
        (L.pc = "done" /\ L.op \in {"Get", "Exists", "GetTTL", "SetTTL"}
                       /\ L.item # NoItem /\ L.at >= L.item.expires) =>
            /\ L.op = "Get" => L.result \in {<<"miss">>, <<"expired">>}
            /\ L.op = "Exists" => L.result = <<FALSE>>
            /\ L.op = "GetTTL" => L.result = <<"not found">>
            /\ L.op = "SetTTL" =>
                  /\ L.result = <<"not found">>
                  /\ mItems[L.key] # NoItem => mItems[L.key].expires <= mNow

\* C26: with callers taking turns, a Set of a key that is present replaces
\* that key's entry and removes no other entry, so the keys present are the
\* same before and after, also when the cache holds maxSize entries.
C26_OverwriteKeepsOtherEntries ==
    \A t \in Threads :
        LET L == mThreads[t] IN
        (Finished(t, "Set") /\ L.snap[L.key] # NoItem) =>
            /\ Present(mItems) = Present(L.snap)
            /\ \A k \in MemKeys \ {L.key} : mItems[k] = L.snap[k]
            /\ mItems[L.key] = L.item

\* C27: however the statements of concurrent Sets and readers interleave, the
\* cache never holds more entries than its maximum.
C27_EntriesNeverExceedMaximum == Cardinality(Present(mItems)) <= MaxSize

\* C28: when a store call fails in a polling cycle after the novelty test
\* (saving the round, reading the history, saving the forecast) and the cycle
\* returns, the store is not left with the round R persisted and no forecast
\* targeting R + 1.
C28_AbortedCycleLeavesNoPartialWrite ==
    [][ ( /\ ~booting
          /\ \/ pc \in {"generate", "save_pred"} /\ pc' = "idle" /\ faults' > faults
             \/ pc = "save_failed" /\ pc' = "idle" ) =>
          ~( /\ \E x \in rounds' : x.qihao = observed
             /\ \A j \in DOMAIN preds' : preds'[j].target_qihao # observed + 1 ) ]_vars

\* C29: a malformed entry of a fetched batch is dropped alone. A start whose
\* calls all succeed persists every well-formed round of the batch, and a
\* tick whose request succeeds on a batch that has a well-formed entry does
\* not fail, whatever the first entry is.
C29_MalformedEntryRejectedAlone ==
    [][ /\ (pc = "boot" /\ pc' = "ensure" /\ faults' = faults) =>
              \A k \in DOMAIN source :
                  validateOpenNum(source[k].opennum) =>
                      \E x \in rounds' : x.qihao = source[k].qihao
        /\ ( /\ pc = "idle" /\ pc' \in {"check", "failed"} /\ faults' = faults
             /\ \E k \in DOMAIN source : validateOpenNum(source[k].opennum) ) =>
              pc' = "check" ]_vars

\* C30: when a polling cycle observes a novel round R and no forecast targets
\* R, the verification step changes nothing in the store and hands over to
\* the generation with R persisted; and a cycle that verified nothing and
\* returns from its notification has persisted the round, synced the cache,
\* generated and persisted a forecast, which targets R + 1, and synced the
\* cache again.
C30_MissingForecastIsNoError ==
    [][ /\ ( /\ pc = "verify" /\ pc' # "verify"
             /\ \A j \in DOMAIN preds : preds[j].target_qihao # observed ) =>
              /\ preds' = preds /\ rounds' = rounds
              /\ \E x \in rounds : x.qihao = observed
              /\ pc' = "generate"
        /\ (pc = "notify" /\ pc' = "idle" /\ ~booting /\ validation = <<>>) =>
              /\ log = <<"persist_round", "cache_round", "verify", "generate",
                         "persist_forecast", "cache_forecast">>
              /\ \E j \in DOMAIN preds :
                     preds[j].id = draft[1].id /\ ~IsVerified(preds[j])
              /\ draft[1].target_qihao = observed + 1 ]_vars

\* ------------------------------------------------------------- claims C31..C40
\* C31: a retention sweep changes no cache entry, so the latest round and the
\* latest forecast are read from the cache after the sweep as before it,
\* whatever the sweep deleted from the store.
C31_SweepLeavesCache ==
    [][ sweeps' # sweeps =>
          /\ cache' = cache
          /\ cache[KeyLatest] # <<>> =>
                GetLatestLotteryData(cache', rounds', FALSE).value = cache[KeyLatest]
          /\ cache[KeyPredLatest] # <<>> =>
                GetLatestPrediction(cache', preds', FALSE).value = cache[KeyPredLatest] ]_vars

\* After a sweep the cache holds a latest round and a latest forecast that
\* the store no longer has.
C31_Witness ==
    /\ sweeps = 1
    /\ cache[KeyLatest] # <<>> /\ cache[KeyPredLatest] # <<>>
    /\ \A x \in rounds : x.qihao # cache[KeyLatest][1].qihao
    /\ \A j \in DOMAIN preds : preds[j].id # cache[KeyPredLatest][1].id

\* C32: a forecast row leaves the store only while it is unverified and its
\* target is older than a stored round; a verified forecast is never deleted.
C32_OnlyStalePendingDeleted ==
    [][ \A i \in DOMAIN preds :
            (\A j \in DOMAIN preds' : preds'[j].id # preds[i].id) =>
                /\ ~IsVerified(preds[i])
                /\ \E x \in rounds : preds[i].target_qihao < x.qihao ]_vars

\* The outcomes the analysis is computed from: those of the table's rows,
\* newest first.
Outcomes == [i \in 1..Len(sRows) |-> sRows[Len(sRows) + 1 - i].is_correct = 1]

\* C33: for outcomes of length L and the window W = 10 the moving average
\* has L - W + 1 values (none when L < W), the n-th being the percentage of
\* true outcomes among the n-th to the (n + W - 1)-th; the direction is
\* "insufficient_data" for fewer than 2 values, "improving" iff the last
\* value exceeds the one before by more than 1, "declining" iff it is lower
\* by more than 1, and "stable" otherwise.
C33_MovingAverageAndTrend ==
    sStats # <<>> =>
        LET L == Len(Outcomes)
            ma == sStats.moving_average
            d == sStats.trend_direction
        IN /\ Len(ma) = IF L < 10 THEN 0 ELSE L - 10 + 1
           /\ \A n \in DOMAIN ma :
                  ma[n] * 10 = 100 * Cardinality({ j \in n..(n + 9) : Outcomes[j] })
           /\ (d = "insufficient_data") <=> (Len(ma) < 2)
           /\ Len(ma) >= 2 =>
                  /\ (d = "improving") <=> (ma[Len(ma)] - ma[Len(ma) - 1] > 1)
                  /\ (d = "declining") <=> (ma[Len(ma) - 1] - ma[Len(ma)] > 1)
                  /\ (d = "stable") <=> ( /\ ma[Len(ma)] - ma[Len(ma) - 1] <= 1
                                          /\ ma[Len(ma) - 1] - ma[Len(ma)] <= 1 )

\* An analysis of 12 outcomes, 3 windows, whose last window is better than
\* the one before.
C33_Witness ==
    /\ sStats # <<>> /\ Len(sRows) = 12
    /\ Len(sStats.moving_average) = 3
    /\ sStats.trend_direction = "improving"

C35_ExpiryPathKeepsFreshEntry ==
    \A t \in Threads : \A u \in Threads \ {t} :
        LET L == mThreads[t]
            E == mThreads[u]
        IN ( /\ Finished(t, "Set") /\ E.pc = "done"
             /\ \/ E.op \in {"Get", "Exists"} /\ E.key = L.key
                \/ E.op = "cleanupExpired"
             /\ mNow <= L.item.expires )
           => mItems[L.key] = L.item

\* C36: when a polling cycle that persisted the novel round R returns and R
\* is more than one identifier ahead of the newest round stored besides it,
\* every well-formed round of the fetched window that lies between the two
\* is stored: the store has no gap inside the window.
C36_NoGapInsideFetchedWindow ==
    [][ (~booting /\ pc # "idle" /\ pc' = "idle" /\ Pos("persist_round") > 0) =>
          LET others == { x.qihao : x \in rounds' } \ {observed}
              window == FetchLotteryData(source, 10)
          IN \A newest \in others :
                ((\A q \in others : q <= newest) /\ newest + 1 < observed) =>
                    \A k \in DOMAIN window :
                       ( /\ validateOpenNum(window[k].opennum)
                         /\ newest < window[k].qihao /\ window[k].qihao < observed )
                       => window[k].qihao \in { x.qihao : x \in rounds' } ]_vars

\* C37: a verification step for the saved round R that writes to the store
\* sets, on every forecast row whose target is R, the actual draw, the actual
\* sum, the parity of that sum, the verification time and one flag, and the
\* flag says whether the predicted parity of a most recently predicted row
\* for R is the parity of the actual sum; rows of other targets are not
\* touched.
C37_FlagIsParityAgreementOnEveryRow ==
    [][ (pc = "verify" /\ pc' # "verify" /\ preds' # preds) =>
          LET R == cur[1].qihao
              hits == { i \in DOMAIN preds : preds[i].target_qihao = R }
              parity == IF cur[1].sum_value % 2 = 0 THEN "even" ELSE "odd"
          IN /\ DOMAIN preds' = DOMAIN preds
             /\ hits # {}
             /\ \E m \in hits :
                   /\ \A j \in hits : preds[j].predicted_at <= preds[m].predicted_at
                   /\ \A i \in hits :
                         preds'[i] =
                           [preds[i] EXCEPT
                              !.actual_num = cur[1].opennum,
                              !.actual_sum = cur[1].sum_value,
                              !.actual_odd_even = parity,
                              !.is_correct =
                                  IF preds[m].predicted_odd_even = parity THEN 1 ELSE 0,
                              !.verified_at = clock]
             /\ \A i \in DOMAIN preds \ hits : preds'[i] = preds[i] ]_vars

\* A verification has just written a wrong-parity outcome to two rows that
\* target the saved round.
C37_Witness ==
    /\ pc = "cache_verified"
    /\ \E i \in DOMAIN preds : \E j \in DOMAIN preds :
          /\ i < j
          /\ preds[i].target_qihao = cur[1].qihao
          /\ preds[j].target_qihao = cur[1].qihao
          /\ preds[i].is_correct = 0 /\ preds[j].is_correct = 0
          /\ preds[i].verified_at = preds[j].verified_at
          /\ preds[i].actual_num = cur[1].opennum

\* The sum of the 9 slot values of the first 3 rounds of a history.
SlotTotal(history) ==
    CalculateSum(history[1].opennum) + CalculateSum(history[2].opennum)
        + CalculateSum(history[3].opennum)

C39_NumberingsAgree ==
    [][ /\ \A i \in DOMAIN source :
              AppGenerateNextQihao(source[i].qihao)
                = PredictorGenerateNextQihao(source[i].qihao)
        /\ ( /\ pc = "ensure" /\ restarts > 0 /\ faults' = faults
             /\ \E k \in DOMAIN issued : issued[k].observed = observed )
           => pc' # "generate" ]_vars

\* C40: when the operations of the cache run one at a time, then after each
\* of them (no operation is under way) the size counter is the number of
\* entries the map holds, and it lies between 0 and the maximum.
C40_SizeCountsStoredEntries ==
    (\A t \in Threads : mThreads[t].pc \in {"idle", "done"}) =>
        /\ mSize = Cardinality(Present(mItems))
        /\ 0 <= mSize /\ mSize <= MaxSize

\* A Set of a new key that found the cache at its maximum has completed, and
\* the counter and the map both stand at the maximum.
C40_Witness ==
    /\ \E t \in Threads :
          /\ mThreads[t].op = "Set" /\ mThreads[t].pc = "done"
          /\ mThreads[t].snapSize = MaxSize
          /\ mThreads[t].snap[mThreads[t].key] = NoItem
          /\ \A u \in Threads \ {t} : mThreads[u].pc = "idle"
    /\ mSize = MaxSize /\ Cardinality(Present(mItems)) = MaxSize

=============================================================================
